---- MODULE Spec2Model ----
(***************************************************************************)
(* Texty 2.0: the text processing engine (src/js/text-processor.js) as a   *)
(* state machine.  A text is a sequence of one-character strings.  Every   *)
(* regular expression of the source is an operator that scans the text     *)
(* the way the JavaScript regular expression engine does (leftmost match,  *)
(* greedy quantifiers, non-overlapping global replacement).                *)
(***************************************************************************)
EXTENDS Integers, Sequences, FiniteSets, TLC

VARIABLES input, op, result, prev, calls

\* The browser's pending timers, the closure of a debounced function and the
\* record of its calls and runs.
VARIABLES timers, timerCount, timeout, called, ran, elapsed

\* TextyApp: this.elements, this.state, the document's data-theme attribute,
\* the local storage and the system clipboard.
VARIABLES elements, state, dataTheme, localStorage, clipboard

timerVars == <<timers, timerCount, timeout, called, ran, elapsed>>

appVars == <<elements, state, dataTheme, localStorage, clipboard>>

vars == <<input, op, result, prev, calls, timerVars, appVars>>

\* No page is loaded: the functions of the engine are called on their own.
NoPage ==
  /\ timers = <<>>
  /\ timerCount = 0
  /\ timeout = 0
  /\ called = <<>>
  /\ ran = <<>>
  /\ elapsed = 0
  /\ elements = <<>>
  /\ state = <<>>
  /\ dataTheme = ""
  /\ localStorage = <<>>
  /\ clipboard = <<>>

(***************************************************************************)
(* Characters                                                              *)
(***************************************************************************)
Max(a, b) == IF a >= b THEN a ELSE b

LowerLetters ==
  <<"a", "b", "c", "d", "e", "f", "g", "h", "i", "j", "k", "l", "m",
    "n", "o", "p", "q", "r", "s", "t", "u", "v", "w", "x", "y", "z">>

UpperLetters ==
  <<"A", "B", "C", "D", "E", "F", "G", "H", "I", "J", "K", "L", "M",
    "N", "O", "P", "Q", "R", "S", "T", "U", "V", "W", "X", "Y", "Z">>

DigitChars == <<"0", "1", "2", "3", "4", "5", "6", "7", "8", "9">>

\* [a-z]
IsLower(c) == \E k \in 1..26 : LowerLetters[k] = c

\* [A-Z]
IsUpper(c) == \E k \in 1..26 : UpperLetters[k] = c

IsDigit(c) == \E k \in 1..10 : DigitChars[k] = c

\* \w : letters, digits and the underscore
IsWordChar(c) == IsLower(c) \/ IsUpper(c) \/ IsDigit(c) \/ c = "_"

\* \s restricted to the characters of the model: space, tab, line feed
IsWhite(c) == c \in {" ", "\t", "\n"}

\* [ \t]
IsBlank(c) == c \in {" ", "\t"}

\* [.!?]
IsSentenceEnd(c) == c \in {".", "!", "?"}

\* [,.!?;:]
IsPunct(c) == c \in {",", ".", "!", "?", ";", ":"}

charToUpperCase(c) ==
  IF IsLower(c) THEN UpperLetters[CHOOSE k \in 1..26 : LowerLetters[k] = c] ELSE c

charToLowerCase(c) ==
  IF IsUpper(c) THEN LowerLetters[CHOOSE k \in 1..26 : UpperLetters[k] = c] ELSE c

toLowerCase(s) == [k \in 1..Len(s) |-> charToLowerCase(s[k])]

toUpperCase(s) == [k \in 1..Len(s) |-> charToUpperCase(s[k])]

(***************************************************************************)
(* String primitives                                                       *)
(***************************************************************************)
\* The first index >= i whose character is not white space, Len(s)+1 if none.
RECURSIVE SkipWhite(_, _)
SkipWhite(s, i) ==
  IF i > Len(s) \/ ~IsWhite(s[i]) THEN i ELSE SkipWhite(s, i + 1)

\* The first index >= i whose character is neither space nor tab.
RECURSIVE SkipBlank(_, _)
SkipBlank(s, i) ==
  IF i > Len(s) \/ ~IsBlank(s[i]) THEN i ELSE SkipBlank(s, i + 1)

\* The last index <= i whose character is not white space, 0 if none.
RECURSIVE SkipWhiteBack(_, _)
SkipWhiteBack(s, i) ==
  IF i < 1 \/ ~IsWhite(s[i]) THEN i ELSE SkipWhiteBack(s, i - 1)

\* String.prototype.trim
trim(s) ==
  LET a == SkipWhite(s, 1)
      b == SkipWhiteBack(s, Len(s))
  IN  IF a > b THEN <<>> ELSE SubSeq(s, a, b)

\* Array.prototype.join
RECURSIVE join(_, _)
join(parts, sep) ==
  IF Len(parts) = 0 THEN <<>>
  ELSE IF Len(parts) = 1 THEN parts[1]
  ELSE parts[1] \o sep \o join(Tail(parts), sep)

\* Array.prototype.filter(Boolean) on strings: the empty string is falsy.
RECURSIVE filterNonEmpty(_)
filterNonEmpty(parts) ==
  IF Len(parts) = 0 THEN <<>>
  ELSE IF parts[1] = <<>> THEN filterNonEmpty(Tail(parts))
  ELSE <<parts[1]>> \o filterNonEmpty(Tail(parts))

\* split('\n'): the pieces between line feeds, empty pieces included.
RECURSIVE splitLinesFrom(_, _, _)
splitLinesFrom(s, i, start) ==
  IF i > Len(s) THEN <<SubSeq(s, start, Len(s))>>
  ELSE IF s[i] = "\n"
       THEN <<SubSeq(s, start, i - 1)>> \o splitLinesFrom(s, i + 1, i + 1)
       ELSE splitLinesFrom(s, i + 1, start)

splitLines(s) == splitLinesFrom(s, 1, 1)

\* The last line feed of the white-space run that follows index i, 0 if the run
\* holds none: where a match of /\n\s*\n/ that starts at i ends (\s* is greedy
\* and gives back only as far as the last line feed).
RECURSIVE LastLineFeed(_, _, _)
LastLineFeed(s, j, best) ==
  IF j > Len(s) \/ ~IsWhite(s[j]) THEN best
  ELSE LastLineFeed(s, j + 1, IF s[j] = "\n" THEN j ELSE best)

\* split(/\n\s*\n/)
RECURSIVE splitParagraphsFrom(_, _, _)
splitParagraphsFrom(s, i, start) ==
  IF i > Len(s) THEN <<SubSeq(s, start, Len(s))>>
  ELSE LET e == IF s[i] = "\n" THEN LastLineFeed(s, i + 1, 0) ELSE 0
       IN  IF e > 0
           THEN <<SubSeq(s, start, i - 1)>> \o splitParagraphsFrom(s, e + 1, e + 1)
           ELSE splitParagraphsFrom(s, i + 1, start)

splitParagraphs(s) == splitParagraphsFrom(s, 1, 1)

\* replace(/[ \t]+/g, ' ')
RECURSIVE collapseBlanks(_, _)
collapseBlanks(s, i) ==
  IF i > Len(s) THEN <<>>
  ELSE IF IsBlank(s[i]) THEN <<" ">> \o collapseBlanks(s, SkipBlank(s, i))
  ELSE <<s[i]>> \o collapseBlanks(s, i + 1)

(***************************************************************************)
(* TextFormatter.autoFormat                                                *)
(***************************************************************************)
\* replace(/\s+([,.!?;:])/g, '$1'): a white-space run is dropped when a
\* punctuation mark follows it.
RECURSIVE removeSpaceBeforePunct(_, _)
removeSpaceBeforePunct(s, i) ==
  IF i > Len(s) THEN <<>>
  ELSE IF IsWhite(s[i])
       THEN LET j == SkipWhite(s, i)
            IN  IF j <= Len(s) /\ IsPunct(s[j])
                THEN <<s[j]>> \o removeSpaceBeforePunct(s, j + 1)
                ELSE SubSeq(s, i, j - 1) \o removeSpaceBeforePunct(s, j)
       ELSE <<s[i]>> \o removeSpaceBeforePunct(s, i + 1)

\* replace(/([.!?])\s*([A-Z])/g, '$1 $2')
RECURSIVE spaceAfterSentenceEnd(_, _)
spaceAfterSentenceEnd(s, i) ==
  IF i > Len(s) THEN <<>>
  ELSE IF IsSentenceEnd(s[i])
       THEN LET j == SkipWhite(s, i + 1)
            IN  IF j <= Len(s) /\ IsUpper(s[j])
                THEN <<s[i], " ", s[j]>> \o spaceAfterSentenceEnd(s, j + 1)
                ELSE <<s[i]>> \o spaceAfterSentenceEnd(s, i + 1)
       ELSE <<s[i]>> \o spaceAfterSentenceEnd(s, i + 1)

\* replace(/(^|[.!?]\s+)([a-z])/g, (_, p1, p2) => p1 + p2.toUpperCase())
RECURSIVE capitalizeSentences(_, _)
capitalizeSentences(s, i) ==
  IF i > Len(s) THEN <<>>
  ELSE IF i = 1 /\ IsLower(s[1])
       THEN <<charToUpperCase(s[1])>> \o capitalizeSentences(s, 2)
  ELSE IF IsSentenceEnd(s[i]) /\ i < Len(s) /\ IsWhite(s[i + 1])
       THEN LET j == SkipWhite(s, i + 1)
            IN  IF j <= Len(s) /\ IsLower(s[j])
                THEN SubSeq(s, i, j - 1) \o <<charToUpperCase(s[j])>>
                       \o capitalizeSentences(s, j + 1)
                ELSE <<s[i]>> \o capitalizeSentences(s, i + 1)
  ELSE <<s[i]>> \o capitalizeSentences(s, i + 1)

\* replace(/\bi\b/g, 'I'): an 'i' with no word character on either side.
fixLowercaseI(s) ==
  [k \in 1..Len(s) |->
     IF /\ s[k] = "i"
        /\ (k = 1 \/ ~IsWordChar(s[k - 1]))
        /\ (k = Len(s) \/ ~IsWordChar(s[k + 1]))
     THEN "I" ELSE s[k]]

\* replace(/\s+'/g, "'")
RECURSIVE removeSpaceBeforeApostrophe(_, _)
removeSpaceBeforeApostrophe(s, i) ==
  IF i > Len(s) THEN <<>>
  ELSE IF IsWhite(s[i])
       THEN LET j == SkipWhite(s, i)
            IN  IF j <= Len(s) /\ s[j] = "'"
                THEN <<s[j]>> \o removeSpaceBeforeApostrophe(s, j + 1)
                ELSE SubSeq(s, i, j - 1) \o removeSpaceBeforeApostrophe(s, j)
       ELSE <<s[i]>> \o removeSpaceBeforeApostrophe(s, i + 1)

\* replace(/'\s+/g, "'")
RECURSIVE removeSpaceAfterApostrophe(_, _)
removeSpaceAfterApostrophe(s, i) ==
  IF i > Len(s) THEN <<>>
  ELSE IF s[i] = "'"
       THEN <<"'">> \o removeSpaceAfterApostrophe(s, SkipWhite(s, i + 1))
       ELSE <<s[i]>> \o removeSpaceAfterApostrophe(s, i + 1)

formatLine(line) ==
  LET s1 == collapseBlanks(line, 1)
      s2 == trim(s1)
      s3 == removeSpaceBeforePunct(s2, 1)
      s4 == spaceAfterSentenceEnd(s3, 1)
      s5 == capitalizeSentences(s4, 1)
      s6 == fixLowercaseI(s5)
      s7 == removeSpaceBeforeApostrophe(s6, 1)
  IN  removeSpaceAfterApostrophe(s7, 1)

\* lines.map(line => line.trim() ? formatLine(line) : '').join('\n')
formatParagraph(paragraph) ==
  LET lines == splitLines(paragraph)
  IN  join([k \in 1..Len(lines) |->
              IF trim(lines[k]) # <<>> THEN formatLine(lines[k]) ELSE <<>>],
           <<"\n">>)

autoFormat(text) ==
  IF text = <<>> \/ trim(text) = <<>> THEN <<>>
  ELSE LET paragraphs == splitParagraphs(text)
           formatted == [k \in 1..Len(paragraphs) |-> formatParagraph(paragraphs[k])]
       IN  join(filterNonEmpty(formatted), <<"\n", "\n">>)

(***************************************************************************)
(* TextFormatter.stripFormatting                                           *)
(***************************************************************************)
\* The first index >= i that holds character c, 0 if none.
RECURSIVE IndexOf(_, _, _)
IndexOf(s, c, i) ==
  IF i > Len(s) THEN 0 ELSE IF s[i] = c THEN i ELSE IndexOf(s, c, i + 1)

\* A faulty variant: replace without the g flag removes the first tag only.
removeFirstTag(text) ==
  LET a == IndexOf(text, "<", 1)
      b == IF a = 0 THEN 0 ELSE IndexOf(text, ">", a + 1)
  IN  IF b = 0 THEN text
      ELSE SubSeq(text, 1, a - 1) \o SubSeq(text, b + 1, Len(text))

\* replace(/<[^>]*>/g, ''): from each '<' to the first '>' after it.
RECURSIVE removeTagsFrom(_, _)
removeTagsFrom(s, i) ==
  IF i > Len(s) THEN <<>>
  ELSE IF s[i] = "<"
       THEN LET j == IndexOf(s, ">", i + 1)
            IN  IF j = 0 THEN SubSeq(s, i, Len(s))
                ELSE removeTagsFrom(s, j + 1)
       ELSE <<s[i]>> \o removeTagsFrom(s, i + 1)

removeTags(text) == removeTagsFrom(text, 1)

\* Whether w occurs in s at index i.
StartsWith(s, i, w) ==
  /\ i + Len(w) - 1 <= Len(s)
  /\ SubSeq(s, i, i + Len(w) - 1) = w

\* The named character references that the characters of the model can
\* spell: lt, gt and amp.
EntityNames == <<<<"l", "t">>, <<"g", "t">>, <<"a", "m", "p">>>>

EntityChars == <<"<", ">", "&">>

\* textarea.innerHTML = text; text = textarea.value: the text is parsed as
\* the content of a textarea, where a character reference stands for its
\* character.  A reference is '&', a name and an optional ';'.
RECURSIVE decodeEntitiesFrom(_, _)
decodeEntitiesFrom(s, i) ==
  IF i > Len(s) THEN <<>>
  ELSE IF s[i] = "&" /\ \E e \in 1..Len(EntityNames) : StartsWith(s, i + 1, EntityNames[e])
       THEN LET e == CHOOSE e \in 1..Len(EntityNames) : StartsWith(s, i + 1, EntityNames[e])
                j == i + 1 + Len(EntityNames[e])
            IN  <<EntityChars[e]>>
                  \o decodeEntitiesFrom(s, IF j <= Len(s) /\ s[j] = ";" THEN j + 1 ELSE j)
       ELSE <<s[i]>> \o decodeEntitiesFrom(s, i + 1)

decodeEntities(text) == decodeEntitiesFrom(text, 1)

\* replace(/\n[ \t]+/g, '\n')
RECURSIVE removeBlanksAfterLineFeed(_, _)
removeBlanksAfterLineFeed(s, i) ==
  IF i > Len(s) THEN <<>>
  ELSE IF s[i] = "\n"
       THEN <<"\n">> \o removeBlanksAfterLineFeed(s, SkipBlank(s, i + 1))
       ELSE <<s[i]>> \o removeBlanksAfterLineFeed(s, i + 1)

\* replace(/[ \t]+\n/g, '\n')
RECURSIVE removeBlanksBeforeLineFeed(_, _)
removeBlanksBeforeLineFeed(s, i) ==
  IF i > Len(s) THEN <<>>
  ELSE IF IsBlank(s[i])
       THEN LET j == SkipBlank(s, i)
            IN  IF j <= Len(s) /\ s[j] = "\n"
                THEN <<"\n">> \o removeBlanksBeforeLineFeed(s, j + 1)
                ELSE SubSeq(s, i, j - 1) \o removeBlanksBeforeLineFeed(s, j)
       ELSE <<s[i]>> \o removeBlanksBeforeLineFeed(s, i + 1)

\* The first index >= i whose character is not a line feed.
RECURSIVE SkipLineFeeds(_, _)
SkipLineFeeds(s, i) ==
  IF i > Len(s) \/ s[i] # "\n" THEN i ELSE SkipLineFeeds(s, i + 1)

\* replace(/\n{3,}/g, '\n\n')
RECURSIVE collapseLineFeeds(_, _)
collapseLineFeeds(s, i) ==
  IF i > Len(s) THEN <<>>
  ELSE IF s[i] = "\n"
       THEN LET j == SkipLineFeeds(s, i)
            IN  (IF j - i >= 3 THEN <<"\n", "\n">> ELSE SubSeq(s, i, j - 1))
                  \o collapseLineFeeds(s, j)
       ELSE <<s[i]>> \o collapseLineFeeds(s, i + 1)

\* A faulty variant: the blanks before a line feed are kept (the step is
\* missing).
normalizeKeepingBlanksBeforeLineFeed(text) ==
  LET s1 == collapseBlanks(text, 1)
      s2 == removeBlanksAfterLineFeed(s1, 1)
  IN  trim(collapseLineFeeds(s2, 1))

\* A faulty variant: the runs of line feeds are collapsed before the blanks
\* between line feeds are removed.
normalizeLineFeedsFirst(text) ==
  LET s1 == collapseBlanks(text, 1)
      s2 == collapseLineFeeds(s1, 1)
      s3 == removeBlanksAfterLineFeed(s2, 1)
  IN  trim(removeBlanksBeforeLineFeed(s3, 1))

\* The chain of replacements that ends stripFormatting, and its trim.
normalizeWhitespace(text) ==
  LET s1 == collapseBlanks(text, 1)
      s2 == removeBlanksAfterLineFeed(s1, 1)
      s3 == removeBlanksBeforeLineFeed(s2, 1)
  IN  trim(collapseLineFeeds(s3, 1))

stripFormatting(text) ==
  IF text = <<>> THEN <<>>
  ELSE normalizeWhitespace(decodeEntities(removeTags(text)))

\* replace(/\n\s*\n\s*/g, '\n\n') of the copy of stripFormatting in app.js
RECURSIVE collapseBlankLines(_, _)
collapseBlankLines(s, i) ==
  IF i > Len(s) THEN <<>>
  ELSE LET e == IF s[i] = "\n" THEN LastLineFeed(s, i + 1, 0) ELSE 0
       IN  IF e > 0
           THEN <<"\n", "\n">> \o collapseBlankLines(s, SkipWhite(s, e + 1))
           ELSE <<s[i]>> \o collapseBlankLines(s, i + 1)

\* TextFormatter.stripFormatting as app.js defines it.
stripFormattingApp(text) ==
  IF text = <<>> THEN <<>>
  ELSE LET s1 == collapseBlanks(decodeEntities(removeTags(text)), 1)
       IN  trim(collapseBlankLines(s1, 1))

(***************************************************************************)
(* TextAnalyzer.extractKeywords                                            *)
(***************************************************************************)
StopWords ==
  {
    <<"t", "h", "e">>, <<"a", "n", "d">>, <<"t", "o">>, <<"o", "f">>,
    <<"a">>, <<"i", "n">>, <<"f", "o", "r">>, <<"i", "s">>, <<"o", "n">>,
    <<"t", "h", "a", "t">>, <<"b", "y">>, <<"t", "h", "i", "s">>,
    <<"w", "i", "t", "h">>, <<"i">>, <<"y", "o", "u">>, <<"i", "t">>,
    <<"n", "o", "t">>, <<"o", "r">>, <<"b", "e">>, <<"a", "r", "e">>,
    <<"f", "r", "o", "m">>, <<"a", "t">>, <<"a", "s">>,
    <<"y", "o", "u", "r">>, <<"a", "l", "l">>, <<"a", "n", "y">>,
    <<"c", "a", "n">>, <<"h", "a", "d">>, <<"h", "e", "r">>,
    <<"w", "a", "s">>, <<"o", "n", "e">>, <<"o", "u", "r">>,
    <<"o", "u", "t">>, <<"d", "a", "y">>, <<"g", "e", "t">>,
    <<"h", "a", "s">>, <<"h", "i", "m">>, <<"h", "i", "s">>,
    <<"h", "o", "w">>, <<"m", "a", "n">>, <<"n", "e", "w">>,
    <<"n", "o", "w">>, <<"o", "l", "d">>, <<"s", "e", "e">>,
    <<"t", "w", "o">>, <<"w", "a", "y">>, <<"w", "h", "o">>,
    <<"b", "o", "y">>, <<"d", "i", "d">>, <<"i", "t", "s">>,
    <<"l", "e", "t">>, <<"p", "u", "t">>, <<"s", "a", "y">>,
    <<"s", "h", "e">>, <<"t", "o", "o">>, <<"u", "s", "e">>
  }

\* replace(/[^\w]/g, '')
RECURSIVE removeNonWordChars(_)
removeNonWordChars(w) ==
  IF Len(w) = 0 THEN <<>>
  ELSE IF IsWordChar(w[1]) THEN <<w[1]>> \o removeNonWordChars(Tail(w))
  ELSE removeNonWordChars(Tail(w))

cleanWord(word) == removeNonWordChars(toLowerCase(word))

\* wordCount[cleanWord] = (wordCount[cleanWord] || 0) + 1, on the properties
\* of wordCount in the order of their creation.
countWord(wordCount, w) ==
  IF \E k \in 1..Len(wordCount) : wordCount[k].key = w
  THEN [k \in 1..Len(wordCount) |->
          IF wordCount[k].key = w
          THEN [key |-> w, count |-> wordCount[k].count + 1]
          ELSE wordCount[k]]
  ELSE Append(wordCount, [key |-> w, count |-> 1])

\* words.forEach(word => ...)
RECURSIVE tallyWords(_, _)
tallyWords(words, wordCount) ==
  IF Len(words) = 0 THEN wordCount
  ELSE LET w == cleanWord(words[1])
       IN  tallyWords(Tail(words),
                      IF Len(w) > 2 /\ w \notin StopWords
                      THEN countWord(wordCount, w) ELSE wordCount)

\* The number a string of digits denotes.
RECURSIVE digitsValue(_, _)
digitsValue(w, acc) ==
  IF Len(w) = 0 THEN acc
  ELSE digitsValue(Tail(w),
                   10 * acc + (CHOOSE d \in 0..9 : DigitChars[d + 1] = w[1]))

\* An integer index: a property key that is the canonical decimal form of
\* an integer from 0 to 2^32 - 2.  The keys of the model have at most 9
\* digits, all below that limit.
isArrayIndex(w) ==
  /\ Len(w) >= 1 /\ Len(w) <= 9
  /\ \A k \in 1..Len(w) : IsDigit(w[k])
  /\ (Len(w) = 1 \/ w[1] # "0")

\* Insertion of entry e into a sequence of integer-index entries kept in
\* ascending order of the index.
RECURSIVE insertByIndex(_, _)
insertByIndex(sorted, e) ==
  IF Len(sorted) = 0 THEN <<e>>
  ELSE IF digitsValue(e.key, 0) < digitsValue(sorted[1].key, 0) THEN <<e>> \o sorted
  ELSE <<sorted[1]>> \o insertByIndex(Tail(sorted), e)

RECURSIVE indexEntries(_)
indexEntries(wordCount) ==
  IF Len(wordCount) = 0 THEN <<>>
  ELSE IF isArrayIndex(wordCount[1].key)
       THEN insertByIndex(indexEntries(Tail(wordCount)), wordCount[1])
       ELSE indexEntries(Tail(wordCount))

RECURSIVE stringEntries(_)
stringEntries(wordCount) ==
  IF Len(wordCount) = 0 THEN <<>>
  ELSE IF isArrayIndex(wordCount[1].key) THEN stringEntries(Tail(wordCount))
  ELSE <<wordCount[1]>> \o stringEntries(Tail(wordCount))

\* Object.entries: the integer-index keys in ascending order first, then
\* the other keys in the order of their creation.
objectEntries(wordCount) == indexEntries(wordCount) \o stringEntries(wordCount)

\* Insertion of e after every entry whose count is not smaller: the place a
\* stable sort by (a, b) => b[1] - a[1] gives it.
RECURSIVE insertByCount(_, _)
insertByCount(sorted, e) ==
  IF Len(sorted) = 0 THEN <<e>>
  ELSE IF sorted[1].count >= e.count
       THEN <<sorted[1]>> \o insertByCount(Tail(sorted), e)
       ELSE <<e>> \o sorted

\* sort((a, b) => b[1] - a[1]); Array.prototype.sort is stable.
RECURSIVE sortByCount(_, _)
sortByCount(entries, sorted) ==
  IF Len(entries) = 0 THEN sorted
  ELSE sortByCount(Tail(entries), insertByCount(sorted, entries[1]))

MaxKeywords == 7

\* A faulty variant: every entry is kept.
sliceNone(entries) == entries

\* slice(0, 7)
sliceTop(entries) ==
  SubSeq(entries, 1, IF Len(entries) < MaxKeywords THEN Len(entries) ELSE MaxKeywords)

extractKeywords(words) ==
  LET wordCount == tallyWords(words, <<>>)
      top == sliceTop(sortByCount(objectEntries(wordCount), <<>>))
  IN  [k \in 1..Len(top) |-> top[k].key]

(***************************************************************************)
(* TextAnalyzer.analyze                                                    *)
(***************************************************************************)
\* text.trim().split(/\s+/).filter(word => word.length > 0): the maximal
\* runs of characters that are not white space.
RECURSIVE wordsFrom(_, _)
wordsFrom(s, i) ==
  LET a == SkipWhite(s, i)
  IN  IF a > Len(s) THEN <<>>
      ELSE LET b == CHOOSE b \in a..Len(s) :
                      /\ \A k \in a..b : ~IsWhite(s[k])
                      /\ (b = Len(s) \/ IsWhite(s[b + 1]))
           IN  <<SubSeq(s, a, b)>> \o wordsFrom(s, b + 1)

getWords(text) == wordsFrom(text, 1)

\* The first index >= i whose character is not '.', '!' or '?'.
RECURSIVE SkipSentenceEnds(_, _)
SkipSentenceEnds(s, i) ==
  IF i > Len(s) \/ ~IsSentenceEnd(s[i]) THEN i ELSE SkipSentenceEnds(s, i + 1)

\* split(/[.!?]+/)
RECURSIVE splitSentencesFrom(_, _, _)
splitSentencesFrom(s, i, start) ==
  IF i > Len(s) THEN <<SubSeq(s, start, Len(s))>>
  ELSE IF IsSentenceEnd(s[i])
       THEN LET j == SkipSentenceEnds(s, i)
            IN  <<SubSeq(s, start, i - 1)>> \o splitSentencesFrom(s, j, j)
       ELSE splitSentencesFrom(s, i + 1, start)

\* A faulty variant: no part is discarded.
keepEveryPart(parts) == parts

\* filter(s => s.trim().length > 0)
RECURSIVE filterNonBlank(_)
filterNonBlank(parts) ==
  IF Len(parts) = 0 THEN <<>>
  ELSE IF trim(parts[1]) = <<>> THEN filterNonBlank(Tail(parts))
  ELSE <<parts[1]>> \o filterNonBlank(Tail(parts))

getSentences(text) == filterNonBlank(splitSentencesFrom(text, 1, 1))

getParagraphs(text) == filterNonBlank(splitParagraphs(text))

\* [aeiouy]
IsVowel(c) == c \in {"a", "e", "i", "o", "u", "y"}

\* A faulty variant: [^aeiouy], the class without the 'l'.
IsNotVowel(c) == ~IsVowel(c)

\* [^laeiouy]
IsNotLOrVowel(c) == ~(c = "l" \/ IsVowel(c))

\* replace(/(?:[^laeiouy]es|ed|[^laeiouy]e)$/, ''): the leftmost match that
\* ends the word is removed, the character before 'es' or 'e' with it.
stripSuffix(w) ==
  LET n == Len(w)
  IN  IF n >= 3 /\ IsNotLOrVowel(w[n - 2]) /\ w[n - 1] = "e" /\ w[n] = "s"
      THEN SubSeq(w, 1, n - 3)
      ELSE IF n >= 2 /\ w[n - 1] = "e" /\ w[n] = "d"
      THEN SubSeq(w, 1, n - 2)
      ELSE IF n >= 2 /\ IsNotLOrVowel(w[n - 1]) /\ w[n] = "e"
      THEN SubSeq(w, 1, n - 2)
      ELSE w

\* replace(/^y/, '')
stripLeadingY(w) == IF Len(w) >= 1 /\ w[1] = "y" THEN Tail(w) ELSE w

\* word.match(/[aeiouy]{1,2}/g): the number of matches, each taking two
\* vowels when two are there.
RECURSIVE vowelGroups(_, _)
vowelGroups(w, i) ==
  IF i > Len(w) THEN 0
  ELSE IF IsVowel(w[i])
       THEN 1 + vowelGroups(w, IF i < Len(w) /\ IsVowel(w[i + 1]) THEN i + 2 ELSE i + 1)
       ELSE vowelGroups(w, i + 1)

\* A faulty variant: the number of matches, 0 when there is none.
matchesLength(n) == n

\* matches ? matches.length : 1
matchesLengthOrOne(n) == IF n > 0 THEN n ELSE 1

countSyllables(word) ==
  LET w == toLowerCase(word)
  IN  IF Len(w) <= 3 THEN 1
      ELSE matchesLengthOrOne(vowelGroups(stripLeadingY(stripSuffix(w)), 1))

RECURSIVE totalSyllables(_)
totalSyllables(words) ==
  IF Len(words) = 0 THEN 0
  ELSE countSyllables(words[1]) + totalSyllables(Tail(words))

\* A number of the program: the quotient n / d with d > 0 when it is finite;
\* a division by zero gives a value that is not finite (Infinity or NaN).
Quotient(n, d) ==
  IF d = 0 THEN [finite |-> FALSE, n |-> 0, d |-> 1]
  ELSE [finite |-> TRUE, n |-> n, d |-> d]

\* A faulty variant: the sentence count is not floored at 1.
sentenceCountUnfloored(sentences) == Len(sentences)

\* Math.max(sentences.length, 1)
sentenceDivisor(sentences) == Max(Len(sentences), 1)

calculateAvgSyllables(words) ==
  IF Len(words) = 0 THEN Quotient(0, 1)
  ELSE Quotient(totalSyllables(words), Len(words))

\* 206.835 - (1.015 * avgWords) - (84.6 * avgSyllables), in thousandths
calculateFleschScore(avgWords, avgSyllables) ==
  IF avgWords.finite /\ avgSyllables.finite
  THEN Quotient(206835 * avgWords.d * avgSyllables.d
                  - 1015 * avgWords.n * avgSyllables.d
                  - 84600 * avgSyllables.n * avgWords.d,
                1000 * avgWords.d * avgSyllables.d)
  ELSE [finite |-> FALSE, n |-> 0, d |-> 1]

\* Math.round: the nearest integer, a half rounded up.
mathRound(x) ==
  IF x.finite THEN Quotient((2 * x.n + x.d) \div (2 * x.d), 1) ELSE x

\* score >= t; false when the score is not finite.
AtLeast(score, t) == score.finite /\ score.n >= t * score.d

getGradeLevel(score) ==
  IF AtLeast(score, 90) THEN "5th Grade"
  ELSE IF AtLeast(score, 80) THEN "6th Grade"
  ELSE IF AtLeast(score, 70) THEN "7th Grade"
  ELSE IF AtLeast(score, 60) THEN "8th-9th Grade"
  ELSE IF AtLeast(score, 50) THEN "10th-12th Grade"
  ELSE IF AtLeast(score, 30) THEN "College"
  ELSE "Graduate"

\* The grade level of the empty statistics is a dash.
getEmptyStats ==
  [words |-> 0, characters |-> 0, sentences |-> 0, paragraphs |-> 0,
   readingTime |-> 0, fleschScore |-> Quotient(0, 1), gradeLevel |-> "-",
   keywords |-> <<>>]

\* A faulty variant: only the empty string is taken for empty.
isEmptyString(text) == text = <<>>

\* !text || !text.trim()
isEmptyOrBlank(text) == text = <<>> \/ trim(text) = <<>>

analyze(text) ==
  IF isEmptyOrBlank(text) THEN getEmptyStats
  ELSE LET words == getWords(text)
           sentences == getSentences(text)
           paragraphs == getParagraphs(text)
           avgWordsPerSentence == Quotient(Len(words), sentenceDivisor(sentences))
           avgSyllablesPerWord == calculateAvgSyllables(words)
           fleschScore == calculateFleschScore(avgWordsPerSentence, avgSyllablesPerWord)
       IN  [words |-> Len(words),
            characters |-> Len(text),
            sentences |-> Len(sentences),
            paragraphs |-> Len(paragraphs),
            readingTime |-> (Len(words) + 199) \div 200,
            fleschScore |-> mathRound(fleschScore),
            gradeLevel |-> getGradeLevel(fleschScore),
            keywords |-> extractKeywords(words)]

(***************************************************************************)
(* CaseConverter.convert                                                   *)
(***************************************************************************)
\* \S* : the first index >= i whose character is white space, Len(s)+1 if
\* none.
RECURSIVE SkipNonWhite(_, _)
SkipNonWhite(s, i) ==
  IF i > Len(s) \/ IsWhite(s[i]) THEN i ELSE SkipNonWhite(s, i + 1)

\* A faulty variant: the rest of the match keeps its case.
capitalizeFirst(txt) == <<charToUpperCase(txt[1])>> \o Tail(txt)

\* txt.charAt(0).toUpperCase() + txt.substr(1).toLowerCase()
capitalizeMatch(txt) == <<charToUpperCase(txt[1])>> \o toLowerCase(Tail(txt))

\* text.replace(/\w\S*/g, ...): a match starts at a word character and runs
\* to the next white space.
RECURSIVE titleCaseFrom(_, _)
titleCaseFrom(s, i) ==
  IF i > Len(s) THEN <<>>
  ELSE IF IsWordChar(s[i])
       THEN LET j == SkipNonWhite(s, i)
            IN  capitalizeMatch(SubSeq(s, i, j - 1)) \o titleCaseFrom(s, j)
       ELSE <<s[i]>> \o titleCaseFrom(s, i + 1)

\* A faulty variant: ' +', one space or more.
RECURSIVE SkipSpacesAtLeastOne(_, _)
SkipSpacesAtLeastOne(s, i) ==
  IF i > Len(s) \/ s[i] # " " THEN Len(s) + 1
  ELSE IF i < Len(s) /\ s[i + 1] = " " THEN SkipSpacesAtLeastOne(s, i + 1)
  ELSE i + 1

\* ' *' : the first index >= i whose character is not a space.
RECURSIVE SkipSpaces(_, _)
SkipSpaces(s, i) ==
  IF i > Len(s) \/ s[i] # " " THEN i ELSE SkipSpaces(s, i + 1)

\* replace(/(^|\. *)([a-z])/g, (_, p1, p2) => p1 + p2.toUpperCase()): a
\* match is a letter at the start of the string, or a period, the spaces
\* after it and the letter that follows them.
RECURSIVE capitalizeAfterPeriodFrom(_, _)
capitalizeAfterPeriodFrom(s, i) ==
  IF i > Len(s) THEN <<>>
  ELSE IF i = 1 /\ IsLower(s[1])
       THEN <<charToUpperCase(s[1])>> \o capitalizeAfterPeriodFrom(s, 2)
       ELSE LET j == SkipSpaces(s, i + 1)
            IN  IF s[i] = "." /\ j <= Len(s) /\ IsLower(s[j])
                THEN SubSeq(s, i, j - 1) \o <<charToUpperCase(s[j])>>
                       \o capitalizeAfterPeriodFrom(s, j + 1)
                ELSE <<s[i]>> \o capitalizeAfterPeriodFrom(s, i + 1)

\* A faulty variant: a mode that is not known gives the empty string.
convertOrEmpty(text, caseType) ==
  IF text = <<>> THEN <<>>
  ELSE CASE caseType = "upper" -> toUpperCase(text)
         [] caseType = "lower" -> toLowerCase(text)
         [] caseType = "title" -> titleCaseFrom(text, 1)
         [] caseType = "sentence" -> capitalizeAfterPeriodFrom(toLowerCase(text), 1)
         [] OTHER -> <<>>

convert(text, caseType) ==
  IF text = <<>> THEN <<>>
  ELSE CASE caseType = "upper" -> toUpperCase(text)
         [] caseType = "lower" -> toLowerCase(text)
         [] caseType = "title" -> titleCaseFrom(text, 1)
         [] caseType = "sentence" -> capitalizeAfterPeriodFrom(toLowerCase(text), 1)
         [] OTHER -> text

(***************************************************************************)
(* LoremGenerator                                                          *)
(***************************************************************************)
latin ==
  <<
    <<"l", "o", "r", "e", "m">>, <<"i", "p", "s", "u", "m">>,
    <<"d", "o", "l", "o", "r">>, <<"s", "i", "t">>, <<"a", "m", "e", "t">>,
    <<"c", "o", "n", "s", "e", "c", "t", "e", "t", "u", "r">>,
    <<"a", "d", "i", "p", "i", "s", "c", "i", "n", "g">>,
    <<"e", "l", "i", "t">>, <<"s", "e", "d">>, <<"d", "o">>,
    <<"e", "i", "u", "s", "m", "o", "d">>, <<"t", "e", "m", "p", "o", "r">>,
    <<"i", "n", "c", "i", "d", "i", "d", "u", "n", "t">>, <<"u", "t">>,
    <<"l", "a", "b", "o", "r", "e">>, <<"e", "t">>,
    <<"d", "o", "l", "o", "r", "e">>, <<"m", "a", "g", "n", "a">>,
    <<"a", "l", "i", "q", "u", "a">>, <<"e", "n", "i", "m">>, <<"a", "d">>,
    <<"m", "i", "n", "i", "m">>, <<"v", "e", "n", "i", "a", "m">>,
    <<"q", "u", "i", "s">>, <<"n", "o", "s", "t", "r", "u", "d">>
  >>

english ==
  <<
    <<"t", "h", "e">>, <<"q", "u", "i", "c", "k">>,
    <<"b", "r", "o", "w", "n">>, <<"f", "o", "x">>,
    <<"j", "u", "m", "p", "s">>, <<"o", "v", "e", "r">>,
    <<"l", "a", "z", "y">>, <<"d", "o", "g">>,
    <<"b", "e", "a", "u", "t", "i", "f", "u", "l">>,
    <<"l", "a", "n", "d", "s", "c", "a", "p", "e">>,
    <<"m", "o", "u", "n", "t", "a", "i", "n">>, <<"r", "i", "v", "e", "r">>,
    <<"f", "o", "r", "e", "s", "t">>,
    <<"s", "u", "n", "s", "h", "i", "n", "e">>,
    <<"p", "e", "a", "c", "e", "f", "u", "l">>,
    <<"j", "o", "u", "r", "n", "e", "y">>,
    <<"a", "d", "v", "e", "n", "t", "u", "r", "e">>,
    <<"d", "i", "s", "c", "o", "v", "e", "r">>,
    <<"e", "x", "p", "l", "o", "r", "e">>,
    <<"a", "m", "a", "z", "i", "n", "g">>,
    <<"w", "o", "n", "d", "e", "r", "f", "u", "l">>,
    <<"i", "n", "c", "r", "e", "d", "i", "b", "l", "e">>
  >>

tech ==
  <<
    <<"a", "l", "g", "o", "r", "i", "t", "h", "m">>,
    <<"d", "a", "t", "a", "b", "a", "s", "e">>,
    <<"f", "r", "a", "m", "e", "w", "o", "r", "k">>,
    <<"a", "p", "p", "l", "i", "c", "a", "t", "i", "o", "n">>,
    <<"i", "n", "t", "e", "r", "f", "a", "c", "e">>,
    <<"p", "r", "o", "t", "o", "c", "o", "l">>, <<"c", "l", "o", "u", "d">>,
    <<"m", "i", "c", "r", "o", "s", "e", "r", "v", "i", "c", "e", "s">>,
    <<"c", "o", "n", "t", "a", "i", "n", "e", "r">>,
    <<"k", "u", "b", "e", "r", "n", "e", "t", "e", "s">>,
    <<"d", "o", "c", "k", "e", "r">>, <<"a", "p", "i">>,
    <<"s", "c", "a", "l", "a", "b", "i", "l", "i", "t", "y">>,
    <<"p", "e", "r", "f", "o", "r", "m", "a", "n", "c", "e">>,
    <<"i", "n", "f", "r", "a", "s", "t", "r", "u", "c", "t", "u", "r", "e">>,
    <<"d", "e", "p", "l", "o", "y", "m", "e", "n", "t">>,
    <<"o", "p", "t", "i", "m", "i", "z", "a", "t", "i", "o", "n">>
  >>

business ==
  <<
    <<"s", "t", "r", "a", "t", "e", "g", "y">>,
    <<"g", "r", "o", "w", "t", "h">>,
    <<"i", "n", "n", "o", "v", "a", "t", "i", "o", "n">>,
    <<"m", "a", "r", "k", "e", "t">>,
    <<"c", "u", "s", "t", "o", "m", "e", "r">>,
    <<"r", "e", "v", "e", "n", "u", "e">>, <<"p", "r", "o", "f", "i", "t">>,
    <<"i", "n", "v", "e", "s", "t", "m", "e", "n", "t">>,
    <<"p", "o", "r", "t", "f", "o", "l", "i", "o">>,
    <<"s", "t", "a", "k", "e", "h", "o", "l", "d", "e", "r">>,
    <<"p", "a", "r", "t", "n", "e", "r", "s", "h", "i", "p">>,
    <<"c", "o", "l", "l", "a", "b", "o", "r", "a", "t", "i", "o", "n">>,
    <<"e", "f", "f", "i", "c", "i", "e", "n", "c", "y">>,
    <<"p", "r", "o", "d", "u", "c", "t", "i", "v", "i", "t", "y">>,
    <<"t", "r", "a", "n", "s", "f", "o", "r", "m", "a", "t", "i", "o", "n">>,
    <<"c", "o", "m", "p", "e", "t", "i", "t", "i", "v", "e">>,
    <<"a", "d", "v", "a", "n", "t", "a", "g", "e">>
  >>

\* The own properties of the libraries object.
LibraryNames == {"latin", "english", "tech", "business"}

\* Names that the libraries object inherits from Object.prototype: a lookup
\* by one of them gives a function or an object, which is truthy and holds
\* no word.
InheritedNames ==
  {"constructor", "toString", "toLocaleString", "valueOf", "hasOwnProperty",
   "isPrototypeOf", "propertyIsEnumerable", "__proto__"}

\* this.libraries[style] || this.libraries.english
lookupLibrary(style) ==
  IF style = "latin" THEN [isArray |-> TRUE, items |-> latin]
  ELSE IF style = "english" THEN [isArray |-> TRUE, items |-> english]
  ELSE IF style = "tech" THEN [isArray |-> TRUE, items |-> tech]
  ELSE IF style = "business" THEN [isArray |-> TRUE, items |-> business]
  ELSE IF style \in InheritedNames THEN [isArray |-> FALSE, items |-> <<>>]
  ELSE [isArray |-> TRUE, items |-> english]

\* Math.random() gives one of the values k / RandomSteps, 0 <= k < RandomSteps.
RandomSteps == 25

\* The k-th value of a sequence of random values that repeats p for ever.
Rnd(p, k) == p[((k - 1) % Len(p)) + 1]

\* A faulty variant: Math.ceil in the place of Math.floor.
ceilOfProduct(r, n) == (r * n + RandomSteps - 1) \div RandomSteps

\* Math.floor(Math.random() * n)
floorOfProduct(r, n) == (r * n) \div RandomSteps

undefined == [defined |-> FALSE, chars |-> <<>>]

\* lib[Math.floor(Math.random() * lib.length)]: an element of the array;
\* undefined when lib is no array, or beyond the end of the array.
drawWord(lib, r) ==
  LET index == floorOfProduct(r, Len(lib.items))
  IN  IF lib.isArray /\ index < Len(lib.items)
      THEN [defined |-> TRUE, chars |-> lib.items[index + 1]]
      ELSE undefined

\* A faulty variant: i <= count.
iterationsInclusive(count) == Max(count + 1, 0)

\* for (let i = 0; i < count; i++): the number of iterations
iterations(count) == Max(count, 0)

\* join takes undefined for the empty string.
joinWords(words, sep) == join([i \in 1..Len(words) |-> words[i].chars], sep)

TypeError == [threw |-> TRUE, text |-> <<>>]

returned(text) == [threw |-> FALSE, text |-> text]

generateWords(count, lib, p) ==
  LET words == [i \in 1..iterations(count) |-> drawWord(lib, Rnd(p, i))]
  IN  returned(joinWords(words, <<" ">>) \o <<".">>)

\* A faulty variant: the count starts at 4.
wordCountFromFour(p, k) == floorOfProduct(Rnd(p, k), 12) + 4

\* Math.floor(Math.random() * 12) + 5
wordCountAt(p, k) == floorOfProduct(Rnd(p, k), 12) + 5

\* One iteration of the loop of generateSentences, which takes its random
\* values from the k-th on: words[0].charAt throws when words[0] is
\* undefined.
sentenceAt(lib, p, k) ==
  LET words == [j \in 1..wordCountAt(p, k) |-> drawWord(lib, Rnd(p, k + j))]
  IN  IF ~words[1].defined THEN TypeError
      ELSE LET first == [defined |-> TRUE,
                         chars |-> <<charToUpperCase(words[1].chars[1])>>
                                     \o Tail(words[1].chars)]
               capitalized == [j \in 1..Len(words) |-> IF j = 1 THEN first ELSE words[j]]
           IN  returned(joinWords(capitalized, <<" ">>) \o <<".">>)

RECURSIVE sentencesFrom(_, _, _, _)
sentencesFrom(n, lib, p, k) ==
  IF n <= 0 THEN <<>>
  ELSE <<sentenceAt(lib, p, k)>>
         \o sentencesFrom(n - 1, lib, p, k + 1 + wordCountAt(p, k))

\* The number of random values that n sentences take from the k-th on.
RECURSIVE drawsOfSentences(_, _, _)
drawsOfSentences(n, p, k) ==
  IF n <= 0 THEN 0
  ELSE 1 + wordCountAt(p, k) + drawsOfSentences(n - 1, p, k + 1 + wordCountAt(p, k))

\* The texts joined, or the exception when one of them threw.
joinResults(rs, sep) ==
  IF \E i \in 1..Len(rs) : rs[i].threw THEN TypeError
  ELSE returned(join([i \in 1..Len(rs) |-> rs[i].text], sep))

generateSentencesAt(count, lib, p, k) ==
  joinResults(sentencesFrom(iterations(count), lib, p, k), <<" ">>)

generateSentences(count, lib, p) == generateSentencesAt(count, lib, p, 1)

\* Math.floor(Math.random() * 5) + 3
sentenceCountAt(p, k) == floorOfProduct(Rnd(p, k), 5) + 3

RECURSIVE paragraphsFrom(_, _, _, _)
paragraphsFrom(n, lib, p, k) ==
  IF n <= 0 THEN <<>>
  ELSE <<generateSentencesAt(sentenceCountAt(p, k), lib, p, k + 1)>>
         \o paragraphsFrom(n - 1, lib, p,
                           k + 1 + drawsOfSentences(sentenceCountAt(p, k), p, k + 1))

generateParagraphs(count, lib, p) ==
  joinResults(paragraphsFrom(iterations(count), lib, p, 1), <<"\n", "\n">>)

\* generate(type, count, style), with p the values that Math.random gives.
generate(type, count, style, p) ==
  LET library == lookupLibrary(style)
  IN  IF type = "words" THEN generateWords(count, library, p)
      ELSE IF type = "sentences" THEN generateSentences(count, library, p)
      ELSE generateParagraphs(count, library, p)

(***************************************************************************)
(* The timers of the browser: setTimeout, clearTimeout                     *)
(***************************************************************************)
\* A pending timer is its id, the callback it runs and the time that is
\* left until it is due. The timers are kept in the order of their creation.
setTimeout(ts, id, callback, delay) ==
  Append(ts, [id |-> id, callback |-> callback, remaining |-> delay])

\* A faulty variant: the timer is not cancelled.
keepTimeout(ts, id) == ts

\* A timer that has run, and the id 0 of no timer, cancel nothing.
clearTimeout(ts, id) == SelectSeq(ts, LAMBDA t : t.id # id)

HasDue(ts) == \E i \in 1..Len(ts) : ts[i].remaining = 0

\* The timer that runs next: of the timers that are due the one created
\* first.
FirstDue(ts) ==
  CHOOSE i \in 1..Len(ts) :
    /\ ts[i].remaining = 0
    /\ \A j \in 1..(i - 1) : ts[j].remaining # 0

RemoveAt(ts, i) == SubSeq(ts, 1, i - 1) \o SubSeq(ts, i + 1, Len(ts))

\* The time passes by d.
advance(ts, d) == [i \in 1..Len(ts) |-> [ts[i] EXCEPT !.remaining = @ - d]]

(***************************************************************************)
(* TextUtils.debounce                                                      *)
(***************************************************************************)
\* executedFunction(...args): clearTimeout(timeout);
\* timeout = setTimeout(later, wait), where later holds the arguments of
\* this call. The result is the timers and the closure's timeout.
executedFunction(ts, tmo, id, args, wait) ==
  [timers |-> setTimeout(clearTimeout(ts, tmo), id,
                         [name |-> "later", args |-> args], wait),
   timeout |-> id]

\* later: clearTimeout(timeout), before func(...args) runs.
later(ts, tmo) == clearTimeout(ts, tmo)

(***************************************************************************)
(* TextUtils.copyToClipboard, TextUtils.formatNumber                       *)
(***************************************************************************)
\* What the browser does with a copy. navigator.clipboard is missing (an
\* old browser, a page that is not served securely), or writeText resolves
\* or rejects; document.execCommand('copy') returns true when it copied,
\* returns false when it did not, or throws.
ClipboardBehaviours ==
  [writeText : {"missing", "resolves", "rejects"},
   execCommand : {"true", "false", "throws"}]

\* The fallback, the handler of catch: the value of execCommand is not
\* looked at, only an exception rejects.
fallbackCopy(text, env, clip) ==
  IF env.execCommand = "throws"
  THEN [settled |-> "rejected", fallback |-> TRUE, copied |-> FALSE,
        clipboard |-> clip]
  ELSE [settled |-> "resolved", fallback |-> TRUE,
        copied |-> (env.execCommand = "true"),
        clipboard |-> IF env.execCommand = "true" THEN text ELSE clip]

\* copyToClipboard(text): how the promise settles, whether the fallback was
\* attempted, whether a mechanism copied, and the clipboard afterwards.
\* Without navigator.clipboard the call throws before there is a promise.
copyToClipboard(text, env, clip) ==
  IF env.writeText = "missing"
  THEN [settled |-> "thrown", fallback |-> FALSE, copied |-> FALSE,
        clipboard |-> clip]
  ELSE IF env.writeText = "resolves"
  THEN [settled |-> "resolved", fallback |-> FALSE, copied |-> TRUE,
        clipboard |-> text]
  ELSE fallbackCopy(text, env, clip)

\* num.toLocaleString(): the decimal digits, for a number below a thousand.
formatNumber(num) == ToString(num)

(***************************************************************************)
(* TextyApp                                                                *)
(***************************************************************************)
InputDebounceWait == 250

PasteDelay == 50

OperationDelay == 100

LoremDelay == 200

\* The page: what the handlers of TextyApp read and write.
Page ==
  [elements |-> elements, timers |-> timers, timerCount |-> timerCount,
   timeout |-> timeout, state |-> state, dataTheme |-> dataTheme,
   localStorage |-> localStorage]

\* setTimeout(callback, delay) on the page.
schedule(p, name, delay) ==
  [p EXCEPT !.timers = setTimeout(@, p.timerCount + 1,
                                  [name |-> name, args |-> <<>>], delay),
            !.timerCount = @ + 1]

\* -- theme ---------------------------------------------------------------
\* localStorage.getItem('texty-theme') || 'light': null and the empty
\* string give 'light'.
null == "(null)"

savedThemeOrLight(saved) == IF saved \in {null, ""} THEN "light" ELSE saved

setTheme(p, theme) ==
  [p EXCEPT !.state.theme = theme,
            !.dataTheme = theme,
            !.localStorage = [@ EXCEPT !["texty-theme"] = theme]]

initializeTheme(p) ==
  setTheme(p, savedThemeOrLight(p.localStorage["texty-theme"]))

toggleTheme(p) ==
  setTheme(p, IF p.state.theme = "light" THEN "dark" ELSE "light")

\* -- analysis ------------------------------------------------------------
\* The placeholder that stands in the list when there is no keyword.
NoKeywords == <<<<"Start typing to see keywords...">>>>

\* updateKeywords: a tag for each keyword, in capitals.
updateKeywords(keywords) ==
  IF Len(keywords) = 0 THEN NoKeywords
  ELSE [i \in 1..Len(keywords) |-> toUpperCase(keywords[i])]

\* updateStatistics and updateKeywords: what the page shows for an analysis.
shown(els, analysis) ==
  [els EXCEPT !.wordCount = formatNumber(analysis.words),
              !.charCount = formatNumber(analysis.characters),
              !.sentenceCount = formatNumber(analysis.sentences),
              !.paragraphCount = formatNumber(analysis.paragraphs),
              !.readingTime = <<analysis.readingTime, "m">>,
              !.readabilityScore = analysis.fleschScore,
              !.gradeLevel = analysis.gradeLevel,
              !.keywordsList = updateKeywords(analysis.keywords)]

updateAnalysis(els) == shown(els, analyze(els.textInput))

showToast(els, message) == [els EXCEPT !.toast = message]

\* The class loading and the property disabled are set and removed together.
setButtonLoading(els, buttonId, loading) == [els EXCEPT ![buttonId] = loading]

\* -- text processing -----------------------------------------------------
\* TextyApp.stripFormatting, and the callback of its timer.
appStripFormatting(p) ==
  schedule([p EXCEPT !.elements = setButtonLoading(@, "stripFormatBtn", TRUE)],
           "stripFormatting", OperationDelay)

stripFormattingCallback(els) ==
  showToast(
    setButtonLoading(
      updateAnalysis([els EXCEPT !.textInput = stripFormatting(@)]),
      "stripFormatBtn", FALSE),
    "Formatting stripped")

\* TextyApp.autoFormat, and the callback of its timer.
appAutoFormat(p) ==
  schedule([p EXCEPT !.elements = setButtonLoading(@, "autoFormatBtn", TRUE)],
           "autoFormat", OperationDelay)

autoFormatCallback(els) ==
  showToast(
    setButtonLoading(
      updateAnalysis([els EXCEPT !.textInput = autoFormat(@)]),
      "autoFormatBtn", FALSE),
    "Text auto-formatted")

autoStripAndFormat(els) ==
  updateAnalysis([els EXCEPT !.textInput = autoFormat(stripFormatting(@))])

convertCase(els, caseType) ==
  showToast(updateAnalysis([els EXCEPT !.textInput = convert(@, caseType)]),
            <<"Converted to", caseType, "case">>)

\* A faulty variant: the analysis is updated for the lorem output only.
clearTextUpdatingForLorem(els, elementId) ==
  LET cleared == [els EXCEPT ![elementId] = <<>>]
  IN  showToast(IF elementId = "loremOutput" THEN updateAnalysis(cleared)
                ELSE cleared,
                "Text cleared")

clearText(els, elementId) ==
  LET cleared == [els EXCEPT ![elementId] = <<>>]
  IN  showToast(IF elementId = "textInput" THEN updateAnalysis(cleared)
                ELSE cleared,
                "Text cleared")

\* -- lorem generator -----------------------------------------------------
NaN == -1

\* parseInt of the value of the count field: the number that a string of
\* digits denotes, NaN for the empty string and for a string that starts
\* with no digit.
parseInt(value) ==
  IF value # <<>> /\ \A i \in 1..Len(value) : IsDigit(value[i])
  THEN digitsValue(value, 0) ELSE NaN

\* parseInt(value) || 3
countOrThree(value) ==
  LET n == parseInt(value) IN IF n = NaN \/ n = 0 THEN 3 ELSE n

\* value || fallback, for the value of a select element
valueOr(value, fallback) == IF value = "" THEN fallback ELSE value

generateLorem(p) ==
  schedule([p EXCEPT !.elements = setButtonLoading(@, "generateBtn", TRUE)],
           "generateLorem", LoremDelay)

\* The callback of the timer, with r the values that Math.random gives. An
\* exception of the generator ends the callback where it is thrown.
generateLoremCallback(els, r) ==
  LET lorem == generate(valueOr(els.loremType, "paragraphs"),
                        countOrThree(els.loremCount),
                        valueOr(els.loremStyle, "english"), r)
  IN  IF lorem.threw THEN els
      ELSE showToast(
             setButtonLoading([els EXCEPT !.loremOutput = lorem.text],
                              "generateBtn", FALSE),
             "Lorem text generated")

generateInitialLorem(p) ==
  IF p.elements.loremOutput = <<>> THEN generateLorem(p) ELSE p

\* -- copy ----------------------------------------------------------------
\* copyText(elementId): the toast, and what copyToClipboard did. An
\* exception and a rejection are both caught.
copyText(els, elementId, env, clip) ==
  IF els[elementId] = <<>>
  THEN [elements |-> showToast(els, "Nothing to copy"),
        attempt |-> [settled |-> "none", fallback |-> FALSE,
                     copied |-> FALSE, clipboard |-> clip]]
  ELSE LET attempt == copyToClipboard(els[elementId], env, clip)
       IN  [elements |-> showToast(els, IF attempt.settled = "resolved"
                                        THEN "Copied to clipboard"
                                        ELSE "Failed to copy"),
            attempt |-> attempt]

\* -- events --------------------------------------------------------------
\* The input event: the debounced updateAnalysis is called.
inputEvent(p) ==
  LET c == executedFunction(p.timers, p.timeout, p.timerCount + 1, <<>>,
                            InputDebounceWait)
  IN  [p EXCEPT !.timers = c.timers, !.timeout = c.timeout,
                !.timerCount = @ + 1]

\* later of the debounced updateAnalysis
inputLater(p) ==
  [p EXCEPT !.timers = later(@, p.timeout),
            !.elements = updateAnalysis(@)]

\* The paste event: autoStripAndFormat is scheduled.
pasteEvent(p) == schedule(p, "autoStripAndFormat", PasteDelay)

\* handleKeyboardShortcuts, for a key pressed with Ctrl or Cmd
handleKeyboardShortcuts(p, key) ==
  IF key = "k" THEN [p EXCEPT !.elements = clearText(@, "textInput")]
  ELSE IF key = "f" THEN appAutoFormat(p)
  ELSE IF key = "s" THEN appStripFormatting(p)
  ELSE IF key = "g" THEN generateLorem(p)
  ELSE IF key = "d" THEN toggleTheme(p)
  ELSE p

\* -- construction --------------------------------------------------------
\* The page as it is loaded: an empty text input, buttons that are enabled,
\* an empty lorem output, no toast, and nothing shown yet.
loadedPage(saved, type, count, style) ==
  [elements |->
     [textInput |-> <<>>, stripFormatBtn |-> FALSE, autoFormatBtn |-> FALSE,
      generateBtn |-> FALSE, loremType |-> type, loremCount |-> count,
      loremStyle |-> style, loremOutput |-> <<>>, wordCount |-> "",
      charCount |-> "", sentenceCount |-> "", paragraphCount |-> "",
      readingTime |-> <<>>, readabilityScore |-> Quotient(0, 1),
      gradeLevel |-> "", keywordsList |-> <<>>, toast |-> ""],
   timers |-> <<>>, timerCount |-> 0, timeout |-> 0,
   state |-> [theme |-> "light"], dataTheme |-> "",
   localStorage |-> [k \in {"texty-theme"} |-> saved]]

\* constructor and init: initializeTheme, generateInitialLorem,
\* updateAnalysis
init(p) ==
  LET q == generateInitialLorem(initializeTheme(p))
  IN  [q EXCEPT !.elements = updateAnalysis(@)]

(***************************************************************************)
(* Inputs: every text of at most a bounded number of characters            *)
(***************************************************************************)
Texts(alphabet, n) == UNION {[1..k -> alphabet] : k \in 0..n}

MaxFormatLen == 4

FormatAlphabet == {"a", "i", "B", ".", ",", "'", " ", "\n"}

NoResult == <<"-">>

InitFormat ==
  /\ input \in Texts(FormatAlphabet, MaxFormatLen)
  /\ op = "none"
  /\ result = NoResult
  /\ prev = NoResult
  /\ calls = 0
  /\ NoPage

\* autoFormat applied to the input, and then again to its own result.
AutoFormat ==
  /\ op \in {"none", "autoFormat"}
  /\ calls < 2
  /\ op' = "autoFormat"
  /\ result' = autoFormat(IF calls = 0 THEN input ELSE result)
  /\ prev' = result
  /\ calls' = calls + 1
  /\ UNCHANGED <<input, timerVars, appVars>>

NextFormat == AutoFormat

SpecFormat == InitFormat /\ [][NextFormat]_vars

\* Concatenation of a sequence of texts.
RECURSIVE concat(_)
concat(parts) == IF Len(parts) = 0 THEN <<>> ELSE parts[1] \o concat(Tail(parts))

MaxStripLen == 6

MaxStripPieces == 4

WhitespaceAlphabet == {"x", " ", "\t", "\n"}

\* Angle brackets, character references (also one that is itself encoded:
\* "&amp;" followed by "lt;") and white space.
StripPieces ==
  { <<"<">>, <<">">>, <<"x">>, <<" ">>, <<"\n">>,
    <<"&", "l", "t", ";">>, <<"&", "g", "t", ";">>,
    <<"&", "a", "m", "p", ";">>, <<"l", "t", ";">> }

StripInputs ==
  Texts(WhitespaceAlphabet, MaxStripLen)
    \cup {concat(ps) : ps \in Texts(StripPieces, MaxStripPieces)}

InitStrip ==
  /\ input \in StripInputs
  /\ op = "none"
  /\ result = NoResult
  /\ prev = NoResult
  /\ calls = 0
  /\ NoPage

\* stripFormatting applied to the input, and then again to its own result.
StripFormatting ==
  /\ op \in {"none", "stripFormatting"}
  /\ calls < 2
  /\ op' = "stripFormatting"
  /\ result' = stripFormatting(IF calls = 0 THEN input ELSE result)
  /\ prev' = result
  /\ calls' = calls + 1
  /\ UNCHANGED <<input, timerVars, appVars>>

\* The same with the copy of stripFormatting in app.js.
StripFormattingApp ==
  /\ op \in {"none", "stripFormattingApp"}
  /\ calls < 2
  /\ op' = "stripFormattingApp"
  /\ result' = stripFormattingApp(IF calls = 0 THEN input ELSE result)
  /\ prev' = result
  /\ calls' = calls + 1
  /\ UNCHANGED <<input, timerVars, appVars>>

NextStrip == StripFormatting \/ StripFormattingApp

SpecStrip == InitStrip /\ [][NextStrip]_vars

MaxWords == 3

\* Words of letters and of digits, a stop word, plain and with capitals and
\* punctuation, a word with underscores and a short word.
KeywordVocabulary ==
  {
    <<"z", "e", "b", "r", "a">>, <<"a", "p", "p", "l", "e">>,
    <<"1", "0", "0">>, <<"2", "5">>, <<"t", "h", "e">>,
    <<"T", "h", "e", ".">>, <<"a", "_", "_">>, <<"i", "t">>
  }

\* Seven distinct keywords, so that a longer list holds more than seven.
SevenWords ==
  <<
    <<"a", "l", "p", "h", "a">>, <<"b", "e", "t", "a">>,
    <<"g", "a", "m", "m", "a">>, <<"d", "e", "l", "t", "a">>,
    <<"k", "a", "p", "p", "a">>, <<"s", "i", "g", "m", "a">>,
    <<"o", "m", "e", "g", "a">>
  >>

KeywordInputs ==
  {pre \o ws : pre \in {<<>>, SevenWords}, ws \in Texts(KeywordVocabulary, MaxWords)}

InitKeywords ==
  /\ input \in KeywordInputs
  /\ op = "none"
  /\ result = NoResult
  /\ prev = NoResult
  /\ calls = 0
  /\ NoPage

ExtractKeywords ==
  /\ op = "none"
  /\ op' = "extractKeywords"
  /\ result' = extractKeywords(input)
  /\ prev' = result
  /\ calls' = calls + 1
  /\ UNCHANGED <<input, timerVars, appVars>>

NextKeywords == ExtractKeywords

SpecKeywords == InitKeywords /\ [][NextKeywords]_vars

MaxAnalyzePieces == 5

\* A word of two syllables, alone and ending a sentence, a word of one
\* syllable, a sentence end, a line feed and a space.
AnalyzePieces ==
  { <<"i", "d", "e", "a", " ">>,
    <<"i", "d", "e", "a", ".", " ">>,
    <<"x", " ">>,
    <<".">>,
    <<"\n">>,
    <<" ">> }

InitAnalyze ==
  /\ input \in {concat(ps) : ps \in Texts(AnalyzePieces, MaxAnalyzePieces)}
  /\ op = "none"
  /\ result = NoResult
  /\ prev = NoResult
  /\ calls = 0
  /\ NoPage

Analyze ==
  /\ op = "none"
  /\ op' = "analyze"
  /\ result' = analyze(input)
  /\ prev' = result
  /\ calls' = calls + 1
  /\ UNCHANGED <<input, timerVars, appVars>>

NextAnalyze == Analyze

SpecAnalyze == InitAnalyze /\ [][NextAnalyze]_vars

MaxWordLen == 5

\* Vowels, the 'l', the letters of the suffixes, a 'y' and a capital.
SyllableAlphabet == {"a", "e", "l", "s", "d", "y", "E"}

InitSyllables ==
  /\ input \in Texts(SyllableAlphabet, MaxWordLen)
  /\ op = "none"
  /\ result = 0
  /\ prev = 0
  /\ calls = 0
  /\ NoPage

CountSyllables ==
  /\ op = "none"
  /\ op' = "countSyllables"
  /\ result' = countSyllables(input)
  /\ prev' = result
  /\ calls' = calls + 1
  /\ UNCHANGED <<input, timerVars, appVars>>

NextSyllables == CountSyllables

SpecSyllables == InitSyllables /\ [][NextSyllables]_vars

MaxCaseLen == 5

\* A small and a capital letter, a character that is not a word character,
\* a period, a space and a line feed.
CaseAlphabet == {"a", "B", "(", ".", " ", "\n"}

\* The four modes, and three strings that are none of them.
CaseTypes == {"upper", "lower", "title", "sentence", "unknown-mode", "Title", ""}

InitConvert ==
  /\ input \in [text : Texts(CaseAlphabet, MaxCaseLen), caseType : CaseTypes]
  /\ op = "none"
  /\ result = NoResult
  /\ prev = NoResult
  /\ calls = 0
  /\ NoPage

Convert ==
  /\ op = "none"
  /\ op' = "convert"
  /\ result' = convert(input.text, input.caseType)
  /\ prev' = result
  /\ calls' = calls + 1
  /\ UNCHANGED <<input, timerVars, appVars>>

NextConvert == Convert

SpecConvert == InitConvert /\ [][NextConvert]_vars

MaxCount == 2

MaxPattern == 2

LoremTypes == {"words", "sentences", "paragraphs"}

\* The four styles, and three strings that are none of them.
LoremStyles == LibraryNames \cup {"", "pirate", "constructor"}

\* The least, a middle and the greatest value of Math.random.
CoarseRandom == {0, RandomSteps \div 2, RandomSteps - 1}

\* The values that Math.random gives during one call: for words every
\* sequence of values, one for each word; for sentences and paragraphs a
\* pattern of coarse values that repeats.
RandomStreams(type, count) ==
  IF type = "words" THEN [1..iterations(count) -> 0..(RandomSteps - 1)]
  ELSE [1..MaxPattern -> CoarseRandom]

InitLorem ==
  /\ input \in [type : LoremTypes, count : (-1)..MaxCount, style : LoremStyles]
  /\ op = "none"
  /\ result = NoResult
  /\ prev = NoResult
  /\ calls = 0
  /\ NoPage

Generate ==
  /\ op = "none"
  /\ op' = "generate"
  /\ \E p \in RandomStreams(input.type, input.count) :
       result' = generate(input.type, input.count, input.style, p)
  /\ prev' = result
  /\ calls' = calls + 1
  /\ UNCHANGED <<input, timerVars, appVars>>

NextLorem == Generate

SpecLorem == InitLorem /\ [][NextLorem]_vars

MaxWait == 3

MaxCalls == 3

DebounceArgs == {"x", "y"}

\* debounce(func, wait) has returned: no timer yet, timeout is undefined.
InitDebounce ==
  /\ input \in [wait : 1..MaxWait]
  /\ op = "none"
  /\ result = NoResult
  /\ prev = NoResult
  /\ calls = 0
  /\ NoPage

\* A call of the debounced function.
CallDebounced ==
  /\ calls < MaxCalls
  /\ \E a \in DebounceArgs :
       LET c == executedFunction(timers, timeout, timerCount + 1, a, input.wait)
       IN  /\ timers' = c.timers
           /\ timeout' = c.timeout
           /\ called' = Append(called, a)
  /\ timerCount' = timerCount + 1
  /\ elapsed' = 0
  /\ calls' = calls + 1
  /\ op' = "executedFunction"
  /\ UNCHANGED <<input, result, prev, ran, appVars>>

\* A timer expires: later runs func with the arguments it holds. The run is
\* recorded with the time since the last call and the number of that call.
RunLater ==
  /\ HasDue(timers)
  /\ LET i == FirstDue(timers)
     IN  /\ timers' = later(RemoveAt(timers, i), timeout)
         /\ ran' = Append(ran, [args |-> timers[i].callback.args,
                                after |-> elapsed,
                                call |-> Len(called)])
  /\ op' = "later"
  /\ UNCHANGED <<input, result, prev, calls, timerCount, timeout, called,
                 elapsed, appVars>>

\* One unit of time passes while a timer is pending and none is due.
Tick ==
  /\ timers # <<>>
  /\ ~HasDue(timers)
  /\ timers' = advance(timers, 1)
  /\ elapsed' = elapsed + 1
  /\ UNCHANGED <<input, op, result, prev, calls, timerCount, timeout, called,
                 ran, appVars>>

NextDebounce == CallDebounced \/ RunLater \/ Tick

SpecDebounce == InitDebounce /\ [][NextDebounce]_vars

\* The time passes and a timer that is due runs.
SpecDebounceFair ==
  InitDebounce /\ [][NextDebounce]_vars /\ WF_vars(Tick) /\ WF_vars(RunLater)

MaxEvents == 3

MaxTextLen == 3

TypedCharacters == {"a", "."}

PastedTexts == {<<" ", "i">>}

CaseButtons == {"upper", "sentence"}

\* What may be persisted before start-up: nothing, the empty string, the
\* two themes, and a value that is no theme.
PersistedThemes == {null, "", "light", "dark", "blue"}

LoremTypeOptions == {"words", "sentences"}

LoremCountOptions == {<<"1">>, <<>>}

LoremStyleOptions == {"latin", ""}

LoremOptions(id) ==
  IF id = "loremType" THEN LoremTypeOptions
  ELSE IF id = "loremCount" THEN LoremCountOptions
  ELSE LoremStyleOptions

\* The values that Math.random gives during one generation: a coarse value
\* that repeats.
AppRandomStreams == [{1} -> CoarseRandom]

\* The time passes in steps of the shortest delay; the other delays are
\* multiples of it.
TimeStep == PasteDelay

\* The page is p.
Is(p) ==
  /\ elements = p.elements
  /\ timers = p.timers
  /\ timerCount = p.timerCount
  /\ timeout = p.timeout
  /\ state = p.state
  /\ dataTheme = p.dataTheme
  /\ localStorage = p.localStorage

\* The page becomes p.
Becomes(p) ==
  /\ elements' = p.elements
  /\ timers' = p.timers
  /\ timerCount' = p.timerCount
  /\ timeout' = p.timeout
  /\ state' = p.state
  /\ dataTheme' = p.dataTheme
  /\ localStorage' = p.localStorage

\* new TextyApp() has returned on a page with the given settings.
InitApp(themes, types, counts, styles) ==
  /\ input \in [saved : themes, loremType : types, loremCount : counts,
                loremStyle : styles]
  /\ op = "none"
  /\ result = NoResult
  /\ prev = NoResult
  /\ calls = 0
  /\ called = <<>>
  /\ ran = <<>>
  /\ elapsed = 0
  /\ clipboard = <<>>
  /\ Is(init(loadedPage(input.saved, input.loremType, input.loremCount,
                        input.loremStyle)))

\* An event of the user whose handler leaves the page as p.
UserEvent(name, p) ==
  /\ calls < MaxEvents
  /\ calls' = calls + 1
  /\ op' = name
  /\ Becomes(p)
  /\ UNCHANGED <<input, result, prev, called, ran, elapsed, clipboard>>

\* A character is typed: the input event follows.
TypeCharacter ==
  /\ Len(elements.textInput) < MaxTextLen
  /\ \E c \in TypedCharacters :
       UserEvent("input",
                 inputEvent([Page EXCEPT !.elements.textInput = Append(@, c)]))

\* A text is pasted: the paste event, the insertion, the input event.
Paste ==
  \E t \in PastedTexts :
    /\ Len(elements.textInput) + Len(t) <= MaxTextLen
    /\ UserEvent("paste",
                 inputEvent([pasteEvent(Page) EXCEPT
                               !.elements.textInput = @ \o t]))

\* A button that is disabled gives no click.
ClickStripFormat ==
  /\ ~elements.stripFormatBtn
  /\ UserEvent("click stripFormatBtn", appStripFormatting(Page))

ClickAutoFormat ==
  /\ ~elements.autoFormatBtn
  /\ UserEvent("click autoFormatBtn", appAutoFormat(Page))

ClickCase ==
  \E caseType \in CaseButtons :
    UserEvent("click data-case",
              [Page EXCEPT !.elements = convertCase(@, caseType)])

ClickGenerate ==
  /\ ~elements.generateBtn
  /\ UserEvent("click generateBtn", generateLorem(Page))

\* Another option is chosen in one of the three settings.
ChangeLoremSetting ==
  \E id \in {"loremType", "loremCount", "loremStyle"} :
    \E v \in LoremOptions(id) :
      /\ v # elements[id]
      /\ UserEvent("change", generateLorem([Page EXCEPT !.elements[id] = v]))

\* copyText('loremOutput'), with the browser behaving in one of its ways.
\* The attempt is kept in result.
ClickCopyLorem ==
  /\ calls < MaxEvents
  /\ \E env \in ClipboardBehaviours :
       LET c == copyText(elements, "loremOutput", env, clipboard)
       IN  /\ elements' = c.elements
           /\ clipboard' = c.attempt.clipboard
           /\ result' = c.attempt
  /\ calls' = calls + 1
  /\ op' = "click copyLoremBtn"
  /\ UNCHANGED <<input, prev, timerVars, state, dataTheme, localStorage>>

ClickClearLorem ==
  UserEvent("click clearLoremBtn",
            [Page EXCEPT !.elements = clearText(@, "loremOutput")])

ClickThemeToggle == UserEvent("click themeToggle", toggleTheme(Page))

\* One of the given keys is pressed with Ctrl or Cmd.
KeyboardShortcut(keys) ==
  \E key \in keys : UserEvent("keydown", handleKeyboardShortcuts(Page, key))

\* The timer that is due first, of the given callback, runs.
Expires(name) ==
  /\ HasDue(timers)
  /\ timers[FirstDue(timers)].callback.name = name

Fired == [Page EXCEPT !.timers = RemoveAt(@, FirstDue(timers))]

Callback(name, p) ==
  /\ Expires(name)
  /\ op' = name
  /\ Becomes(p)
  /\ UNCHANGED <<input, result, prev, calls, called, ran, elapsed, clipboard>>

ExpireInputLater == Callback("later", inputLater(Fired))

ExpirePaste ==
  Callback("autoStripAndFormat",
           [Fired EXCEPT !.elements = autoStripAndFormat(@)])

ExpireStripFormatting ==
  Callback("stripFormatting",
           [Fired EXCEPT !.elements = stripFormattingCallback(@)])

ExpireAutoFormat ==
  Callback("autoFormat", [Fired EXCEPT !.elements = autoFormatCallback(@)])

ExpireGenerateLorem ==
  \E r \in AppRandomStreams :
    Callback("generateLorem",
             [Fired EXCEPT !.elements = generateLoremCallback(@, r)])

\* The time passes while a timer is pending and none is due.
PassTime ==
  /\ timers # <<>>
  /\ ~HasDue(timers)
  /\ timers' = advance(timers, TimeStep)
  /\ UNCHANGED <<input, op, result, prev, calls, timerCount, timeout, called,
                 ran, elapsed, appVars>>

\* The text side of the page: typing, pasting, the buttons of the text
\* input and the shortcuts K, F and S.
InitEditor == InitApp({null}, {"words"}, {<<"1">>}, {"latin"})

NextEditor ==
  \/ TypeCharacter
  \/ Paste
  \/ ClickStripFormat
  \/ ClickAutoFormat
  \/ ClickCase
  \/ KeyboardShortcut({"k", "f", "s"})
  \/ ExpireInputLater
  \/ ExpirePaste
  \/ ExpireStripFormatting
  \/ ExpireAutoFormat
  \/ ExpireGenerateLorem
  \/ PassTime

SpecEditor == InitEditor /\ [][NextEditor]_vars

\* The lorem generator, the clipboard and the theme: the buttons of the
\* generator, its settings, the theme toggle and the shortcuts G and D.
InitPanel == InitApp(PersistedThemes, {"words"}, {<<"1">>}, {"latin"})

NextPanel ==
  \/ ClickGenerate
  \/ ChangeLoremSetting
  \/ ClickCopyLorem
  \/ ClickClearLorem
  \/ ClickThemeToggle
  \/ KeyboardShortcut({"g", "d"})
  \/ ExpireGenerateLorem
  \/ PassTime

SpecPanel == InitPanel /\ [][NextPanel]_vars

(***************************************************************************)
(* Claims about TextFormatter.autoFormat                                   *)
(***************************************************************************)
\* C1: autoFormat is idempotent: applied to its own result it returns that
\* result again, for every input text.
C1_AutoFormatIdempotent ==
  (op = "autoFormat" /\ calls = 2) => result = prev

\* The result starts or ends with a line feed, or holds three line feeds in a
\* row (two or more empty lines in a row).
HasStrayEmptyLine(s) ==
  /\ s # <<>>
  /\ \/ s[1] = "\n"
     \/ s[Len(s)] = "\n"
     \/ \E k \in 1..(Len(s) - 2) :
          s[k] = "\n" /\ s[k + 1] = "\n" /\ s[k + 2] = "\n"

\* C5: for a non-blank input the result of autoFormat holds no empty line
\* other than the single blank line between two paragraphs: it neither starts
\* nor ends with a line break and never has two blank lines in a row.
C5_AutoFormatNoStrayEmptyLine ==
  (op = "autoFormat" /\ calls = 1 /\ trim(input) # <<>>)
    => ~HasStrayEmptyLine(result)

\* C6: in the result of autoFormat a sentence-ending mark is never directly
\* followed by an uppercase letter, and when the next non-space character
\* of the line after the mark is an uppercase letter, exactly one space
\* separates the two.
C6_SpaceAfterSentenceEnd ==
  (op = "autoFormat" /\ calls = 1) =>
    \A k \in 1..Len(result) :
      IsSentenceEnd(result[k]) =>
        LET j == SkipBlank(result, k + 1)
        IN  (j <= Len(result) /\ IsUpper(result[j]))
              => (j = k + 2 /\ result[k + 1] = " ")

(***************************************************************************)
(* Claims about TextFormatter.stripFormatting                              *)
(***************************************************************************)
HasChar(s, c) == \E k \in 1..Len(s) : s[k] = c

\* A '<' that is followed later by a '>'.
HasMarkupTag(s) ==
  \E i \in 1..Len(s) : \E j \in (i + 1)..Len(s) : s[i] = "<" /\ s[j] = ">"

\* C2 as stated: for every input, also one whose tags are written as
\* character entities, the result of stripFormatting holds no markup tag.
C2_NoTagInResult ==
  (op = "stripFormatting" /\ calls = 1) => ~HasMarkupTag(result)

\* C2 amended: for every input without a character entity (no '&'), nested
\* and unbalanced angle brackets included, the result of stripFormatting
\* holds no '<' that a '>' follows.
C2_NoTagInResultWithoutEntities ==
  (op = "stripFormatting" /\ calls = 1 /\ ~HasChar(input, "&"))
    => ~HasMarkupTag(result)

\* A nested, unbalanced tag was removed from an input without entities.
C2_Witness ==
  /\ op = "stripFormatting" /\ calls = 1
  /\ ~HasChar(input, "&")
  /\ StartsWith(input, 1, <<"<", "<">>)
  /\ HasMarkupTag(input)
  /\ HasChar(result, ">")

IsWhitespaceText(s) == \A k \in 1..Len(s) : s[k] \in WhitespaceAlphabet

\* No tab, no two adjacent spaces, no space next to a line feed, no three
\* line feeds in a row, no white space at either end.
InWhitespaceNormalForm(s) ==
  /\ ~HasChar(s, "\t")
  /\ \A k \in 1..(Len(s) - 1) :
       /\ ~(s[k] = " " /\ s[k + 1] = " ")
       /\ ~(s[k] = " " /\ s[k + 1] = "\n")
       /\ ~(s[k] = "\n" /\ s[k + 1] = " ")
  /\ \A k \in 1..(Len(s) - 2) :
       ~(s[k] = "\n" /\ s[k + 1] = "\n" /\ s[k + 2] = "\n")
  /\ s # <<>> => (~IsWhite(s[1]) /\ ~IsWhite(s[Len(s)]))

\* The indexes of the characters of s that are not white space, in order.
RECURSIVE InkIndexes(_, _)
InkIndexes(s, i) ==
  IF i > Len(s) THEN <<>>
  ELSE IF IsWhite(s[i]) THEN InkIndexes(s, i + 1)
  ELSE <<i>> \o InkIndexes(s, i + 1)

\* The white space between the k-th and the next character that is not
\* white space.
Gap(s, k) ==
  LET ink == InkIndexes(s, 1) IN SubSeq(s, ink[k] + 1, ink[k + 1] - 1)

LineFeedCount(s) == Cardinality({k \in 1..Len(s) : s[k] = "\n"})

\* A line feed that stands alone between two non-blank lines of s is a
\* single line feed, with nothing around it, in r.
SingleLineFeedsKept(s, r) ==
  /\ Len(InkIndexes(r, 1)) = Len(InkIndexes(s, 1))
  /\ \A k \in 1..(Len(InkIndexes(s, 1)) - 1) :
       LineFeedCount(Gap(s, k)) = 1 => Gap(r, k) = <<"\n">>

\* C3: for every input of letters, spaces, tabs and line feeds the result
\* of stripFormatting is in whitespace normal form, and every line feed
\* that stands alone between two non-blank lines is still a single line feed.
C3_WhitespaceNormalForm ==
  (op = "stripFormatting" /\ calls = 1 /\ IsWhitespaceText(input))
    => (InWhitespaceNormalForm(result) /\ SingleLineFeedsKept(input, result))

\* A lone line feed with blanks on both sides, and a run of three line
\* feeds, were normalised.
C3_Witness ==
  /\ op = "stripFormatting" /\ calls = 1
  /\ IsWhitespaceText(input)
  /\ \E k \in 1..(Len(input) - 2) :
       input[k] = " " /\ input[k + 1] = "\n" /\ input[k + 2] = "\t"
  /\ Len(InkIndexes(input, 1)) >= 2
  /\ result # input
  /\ HasChar(result, "\n")

\* C4 as stated: stripFormatting applied to its own result returns that
\* result, for every input text.
C4_StripRoundTrip ==
  (op = "stripFormatting" /\ calls = 2) => result = prev

\* C4 amended: for every input without a character entity (no '&'),
\* stripFormatting applied to its own result returns that result; so does
\* the copy of stripFormatting in app.js.
C4_StripRoundTripWithoutEntities ==
  (op \in {"stripFormatting", "stripFormattingApp"} /\ calls = 2
     /\ ~HasChar(input, "&"))
    => result = prev

\* The first application removed a tag and normalised white space, and the
\* second one was applied to a non-empty result.
C4_Witness ==
  /\ op = "stripFormatting" /\ calls = 2
  /\ ~HasChar(input, "&")
  /\ HasMarkupTag(input)
  /\ HasChar(input, "\n")
  /\ prev # input
  /\ prev # <<>>
  /\ result = prev

(***************************************************************************)
(* Claims about TextAnalyzer.extractKeywords                               *)
(***************************************************************************)
\* Letters and digits only: what stripping the non-alphanumeric characters
\* leaves.
RECURSIVE removeNonAlphanumeric(_)
removeNonAlphanumeric(w) ==
  IF Len(w) = 0 THEN <<>>
  ELSE IF IsLower(w[1]) \/ IsUpper(w[1]) \/ IsDigit(w[1])
       THEN <<w[1]>> \o removeNonAlphanumeric(Tail(w))
       ELSE removeNonAlphanumeric(Tail(w))

Occurrences(w) == {k \in 1..Len(input) : cleanWord(input[k]) = w}

FirstOccurrence(w) == CHOOSE k \in Occurrences(w) : \A m \in Occurrences(w) : k <= m

\* C8: the keywords are in order of non-increasing frequency, and of two
\* keywords of equal frequency the one that occurs first in the word list
\* comes first, digits-only tokens included.
C8_KeywordOrder ==
  op = "extractKeywords" =>
    \A i \in 1..Len(result) : \A j \in (i + 1)..Len(result) :
      \/ Cardinality(Occurrences(result[i])) > Cardinality(Occurrences(result[j]))
      \/ /\ Cardinality(Occurrences(result[i])) = Cardinality(Occurrences(result[j]))
         /\ FirstOccurrence(result[i]) < FirstOccurrence(result[j])

(***************************************************************************)
(* Claims about TextAnalyzer.analyze                                       *)
(***************************************************************************)
\* C9: for a non-blank text the gradeLevel of the result is the label the
\* threshold table gives to the fleschScore reported in the same result.
C9_GradeMatchesReportedScore ==
  (op = "analyze" /\ trim(input) # <<>>)
    => result.gradeLevel = getGradeLevel(result.fleschScore)

\* C10: for a non-blank text the word count is at least 1 and the divisor
\* max(sentences, 1) is used, so fleschScore is a finite integer, the
\* nearest one (a half rounded up) to
\* 206.835 - 1.015 * (words / max(sentences, 1)) - 84.6 * (syllables / words).
C10_FleschScoreFiniteAndRounded ==
  (op = "analyze" /\ trim(input) # <<>>) =>
    LET W == Len(getWords(input))
        S == Max(Len(getSentences(input)), 1)
        syllables == totalSyllables(getWords(input))
        n == 206835 * S * W - 1015 * W * W - 84600 * syllables * S
        d == 1000 * S * W
        f == result.fleschScore
    IN  /\ result.words = W /\ W >= 1
        /\ result.sentences = Len(getSentences(input))
        /\ f.finite /\ f.d = 1
        /\ 2 * f.n * d <= 2 * n + d
        /\ 2 * n + d < 2 * (f.n + 1) * d

\* A text made only of sentence ends: no sentence is counted, and the
\* score is the integer 121.
C10_Witness ==
  /\ op = "analyze"
  /\ input # <<>>
  /\ \A k \in 1..Len(input) : IsSentenceEnd(input[k])
  /\ result.sentences = 0
  /\ result.words = 1
  /\ result.fleschScore = Quotient(121, 1)

\* C11: for the empty string and for every text of white space only, analyze
\* returns the empty statistics: every count, readingTime and fleschScore 0,
\* no keyword and the placeholder grade level; characters is 0 whatever the
\* length of the text.
C11_BlankTextGivesEmptyStats ==
  (op = "analyze" /\ \A k \in 1..Len(input) : IsWhite(input[k])) =>
    /\ result.words = 0
    /\ result.characters = 0
    /\ result.sentences = 0
    /\ result.paragraphs = 0
    /\ result.readingTime = 0
    /\ result.fleschScore = Quotient(0, 1)
    /\ result.keywords = <<>>
    /\ result.gradeLevel = "-"

\* A text of spaces and line feeds, two characters or more, was analyzed.
C11_Witness ==
  /\ op = "analyze"
  /\ Len(input) >= 2
  /\ \A k \in 1..Len(input) : IsWhite(input[k])
  /\ \E k \in 1..Len(input) : input[k] = " "
  /\ \E k \in 1..Len(input) : input[k] = "\n"
  /\ result.characters = 0

\* The places of s where a maximal run of characters other than '.', '!'
\* and '?' starts, when that run holds a character that is not white space.
SentenceStarts(s) ==
  {i \in 1..Len(s) :
     /\ ~IsSentenceEnd(s[i])
     /\ (i = 1 \/ IsSentenceEnd(s[i - 1]))
     /\ \E j \in i..Len(s) :
          /\ ~IsWhite(s[j])
          /\ \A k \in i..j : ~IsSentenceEnd(s[k])}

\* C12: the sentences count of analyze is the length of getSentences(text),
\* no element of getSentences(text) is empty or white space only, and the
\* count is the number of runs between sentence ends that hold a character
\* that is not white space: a run of sentence ends or a trailing one adds
\* no sentence.
C12_SentenceCount ==
  op = "analyze" =>
    LET sentences == getSentences(input)
    IN  /\ result.sentences = Len(sentences)
        /\ \A k \in 1..Len(sentences) :
             \E j \in 1..Len(sentences[k]) : ~IsWhite(sentences[k][j])
        /\ Len(sentences) = Cardinality(SentenceStarts(input))

\* A text with two sentence ends in a row, a sentence end as its last
\* character and a blank run between sentence ends gave one sentence or more.
C12_Witness ==
  /\ op = "analyze"
  /\ result.sentences >= 1
  /\ IsSentenceEnd(input[Len(input)])
  /\ \E k \in 1..(Len(input) - 1) :
       IsSentenceEnd(input[k]) /\ IsSentenceEnd(input[k + 1])
  /\ \E k \in 2..(Len(input) - 1) :
       IsSentenceEnd(input[k - 1]) /\ input[k] = " " /\ IsSentenceEnd(input[k + 1])

(***************************************************************************)
(* Claims about TextAnalyzer.countSyllables                                *)
(***************************************************************************)
VowelLike == {"a", "e", "i", "o", "u", "y"}

\* The number of characters that the suffix rule takes from the end of the
\* lowercased word w when 'e' and 'es' go (with the character before them)
\* after a character outside kept, and 'ed' goes after any character when
\* edAlways holds and after a character outside kept otherwise.
SuffixCut(w, kept, edAlways) ==
  LET n == Len(w)
  IN  IF n >= 3 /\ w[n - 1] = "e" /\ w[n] = "s" /\ w[n - 2] \notin kept THEN 3
      ELSE IF n >= 2 /\ w[n - 1] = "e" /\ w[n] = "d" /\ edAlways THEN 2
      ELSE IF n >= 3 /\ w[n - 1] = "e" /\ w[n] = "d" /\ w[n - 2] \notin kept THEN 3
      ELSE IF n >= 2 /\ w[n] = "e" /\ w[n - 1] \notin kept THEN 2
      ELSE 0

\* What remains of w once the suffix and then a leading 'y' are stripped.
Remainder(w, kept, edAlways) ==
  LET r == SubSeq(w, 1, Len(w) - SuffixCut(w, kept, edAlways))
  IN  IF Len(r) >= 1 /\ r[1] = "y" THEN SubSeq(r, 2, Len(r)) ELSE r

\* The number of vowel-like characters that directly precede place i of r.
VowelsBefore(r, i) ==
  LET stops == {j \in 1..(i - 1) : r[j] \notin VowelLike}
  IN  i - 1 - (IF stops = {} THEN 0 ELSE CHOOSE j \in stops : \A k \in stops : k <= j)

\* The groups of r: every run of vowel-like characters cut into groups of
\* two, with a last group of one when the run is odd.
GroupCount(r) ==
  Cardinality({i \in 1..Len(r) : r[i] \in VowelLike /\ VowelsBefore(r, i) % 2 = 0})

\* C13: countSyllables returns an integer of 1 or more for every word, 1 for
\* a word of 3 characters or less, and 1 for a longer word in which no
\* vowel-like character remains once the suffix and a leading 'y' are
\* stripped.
C13_SyllablesAtLeastOne ==
  op = "countSyllables" =>
    LET r == Remainder(toLowerCase(input), VowelLike \cup {"l"}, TRUE)
    IN  /\ result \in Nat
        /\ result >= 1
        /\ (Len(input) <= 3 => result = 1)
        /\ ((Len(input) > 3 /\ \A k \in 1..Len(r) : r[k] \notin VowelLike)
              => result = 1)

\* A word of more than 3 characters with a vowel, none of which remains
\* after the stripping, counted for 1.
C13_Witness ==
  /\ op = "countSyllables"
  /\ Len(input) > 3
  /\ \E k \in 1..Len(input) : toLowerCase(input)[k] \in VowelLike
  /\ \A k \in 1..Len(Remainder(toLowerCase(input), VowelLike \cup {"l"}, TRUE)) :
       Remainder(toLowerCase(input), VowelLike \cup {"l"}, TRUE)[k] \notin VowelLike
  /\ result = 1

\* C14 as stated: for a word of more than 3 characters, a trailing 'ed', 'e'
\* or 'es' is stripped exactly when it follows a character that is not one
\* of a, e, i, o, u, y, then a leading 'y' is stripped, and the number of
\* vowel groups of what remains is returned (1 when there is no group).
C14_SyllableRule ==
  (op = "countSyllables" /\ Len(input) > 3) =>
    LET groups == GroupCount(Remainder(toLowerCase(input), VowelLike, FALSE))
    IN  result = IF groups = 0 THEN 1 ELSE groups

\* C14 amended: for a word of more than 3 characters, a trailing 'e' or 'es'
\* is stripped exactly when it follows a character that is not one of
\* l, a, e, i, o, u, y, a trailing 'ed' is stripped after any character,
\* then a leading 'y' is stripped, and the number of vowel groups of what
\* remains is returned, or 1 when there is no group.
C14_SyllableRuleWithL ==
  (op = "countSyllables" /\ Len(input) > 3) =>
    LET groups == GroupCount(Remainder(toLowerCase(input), VowelLike \cup {"l"}, TRUE))
    IN  result = IF groups = 0 THEN 1 ELSE groups

\* A word that ends in 'le' kept its 'e', and it was counted.
C14_Witness ==
  /\ op = "countSyllables"
  /\ Len(input) > 3
  /\ toLowerCase(input)[Len(input) - 1] = "l"
  /\ toLowerCase(input)[Len(input)] = "e"
  /\ toLowerCase(input)[Len(input) - 2] \in VowelLike
  /\ result >= 2

(***************************************************************************)
(* Claims about CaseConverter.convert                                      *)
(***************************************************************************)
\* The place where the token of t that holds place k starts.
TokenStart(t, k) ==
  CHOOSE a \in 1..k :
    /\ \A j \in a..k : ~IsWhite(t[j])
    /\ (a = 1 \/ IsWhite(t[a - 1]))

\* C15 as stated: in title mode the first character of every token is
\* uppercased and the rest of the token lowercased, whatever character the
\* token begins with; white space is kept.
C15_TitleCapitalizesTokens ==
  (op = "convert" /\ input.caseType = "title") =>
    LET t == input.text
    IN  /\ Len(result) = Len(t)
        /\ \A k \in 1..Len(t) :
             result[k] = IF IsWhite(t[k]) THEN t[k]
                         ELSE IF TokenStart(t, k) = k THEN charToUpperCase(t[k])
                         ELSE charToLowerCase(t[k])

\* C15 amended: in title mode the first word character (letter, digit or
\* underscore) of every token is uppercased and what follows it in the
\* token is lowercased; the characters of the token before it, a token
\* without a word character and white space are kept.
C15_TitleCapitalizesFirstWordChar ==
  (op = "convert" /\ input.caseType = "title") =>
    LET t == input.text
    IN  /\ Len(result) = Len(t)
        /\ \A k \in 1..Len(t) :
             result[k] =
               IF IsWhite(t[k]) THEN t[k]
               ELSE IF \E j \in TokenStart(t, k)..(k - 1) : IsWordChar(t[j])
                    THEN charToLowerCase(t[k])
               ELSE IF IsWordChar(t[k]) THEN charToUpperCase(t[k])
               ELSE t[k]

\* A token that begins with '(' was converted: the letter after the '(' is
\* a capital and the capital after that letter is a small letter.
C15_Witness ==
  /\ op = "convert"
  /\ input.caseType = "title"
  /\ \E k \in 1..(Len(input.text) - 2) :
       /\ TokenStart(input.text, k) = k
       /\ input.text[k] = "("
       /\ input.text[k + 1] = "a"
       /\ input.text[k + 2] = "B"
       /\ result[k + 1] = "A"
       /\ result[k + 2] = "b"

\* Place k of t follows a period and least spaces or more, and nothing else.
AfterPeriod(t, k, least) ==
  \E j \in 1..(k - 1 - least) :
    t[j] = "." /\ \A i \in (j + 1)..(k - 1) : t[i] = " "

IsLetter(c) == IsLower(c) \/ IsUpper(c)

\* C16 as stated: in sentence mode the result is the lowercased text in
\* which the capitals are the letter that starts the string and each letter
\* that follows a period and a space; a letter directly after a period
\* stays a small letter.
C16_SentenceCapitalizesAfterPeriodSpace ==
  (op = "convert" /\ input.caseType = "sentence") =>
    LET t == input.text
    IN  /\ toLowerCase(result) = toLowerCase(t)
        /\ \A k \in 1..Len(t) :
             IsUpper(result[k]) <=>
               (IsLetter(t[k]) /\ (k = 1 \/ AfterPeriod(t, k, 1)))

\* C16 amended: in sentence mode the result is the lowercased text in
\* which the capitals are the letter that starts the string and each letter
\* that follows a period and zero or more spaces; a letter directly after
\* a period is a capital too.
C16_SentenceCapitalizesAfterPeriod ==
  (op = "convert" /\ input.caseType = "sentence") =>
    LET t == input.text
    IN  /\ toLowerCase(result) = toLowerCase(t)
        /\ \A k \in 1..Len(t) :
             IsUpper(result[k]) <=>
               (IsLetter(t[k]) /\ (k = 1 \/ AfterPeriod(t, k, 0)))

\* A text with a letter directly after a period and a capital that follows
\* a letter was converted.
C16_Witness ==
  /\ op = "convert"
  /\ input.caseType = "sentence"
  /\ \E k \in 2..Len(input.text) :
       input.text[k - 1] = "." /\ input.text[k] = "a" /\ result[k] = "A"
  /\ \E k \in 2..Len(input.text) :
       input.text[k - 1] = "a" /\ input.text[k] = "B" /\ result[k] = "b"

KnownCaseTypes == {"upper", "lower", "title", "sentence"}

\* C17: for a mode that is not 'upper', 'lower', 'title' or 'sentence',
\* convert returns the text as it is.
C17_UnknownModeIsIdentity ==
  (op = "convert" /\ input.caseType \notin KnownCaseTypes) =>
    result = input.text

\* A text with a small and a capital letter was converted in a mode that
\* is not known.
C17_Witness ==
  /\ op = "convert"
  /\ input.caseType \notin KnownCaseTypes
  /\ \E k \in 1..Len(input.text) : input.text[k] = "a"
  /\ \E k \in 1..Len(input.text) : input.text[k] = "B"
  /\ result = input.text

(***************************************************************************)
(* Claims about LoremGenerator.generate                                    *)
(***************************************************************************)
\* The set of the words of a library.
WordsOf(library) == {library[i] : i \in 1..Len(library)}

\* The library that a style names.
LibraryOf(style) ==
  CASE style = "latin" -> WordsOf(latin)
    [] style = "tech" -> WordsOf(tech)
    [] style = "business" -> WordsOf(business)
    [] OTHER -> WordsOf(english)

\* The places of s that hold one of the characters of seps, with 0 and
\* Len(s) + 1.
Cuts(s, seps) == {0, Len(s) + 1} \cup {i \in 1..Len(s) : s[i] \in seps}

\* The tokens of s: what stands between two cuts that follow each other.
TokensOf(s, seps) ==
  {SubSeq(s, a + 1, b - 1) :
     <<a, b>> \in {c \in Cuts(s, seps) \X Cuts(s, seps) :
                    /\ c[1] < c[2]
                    /\ \A m \in Cuts(s, seps) : ~(c[1] < m /\ m < c[2])}}

\* C18: for a count n >= 1 and one of the four styles, the result of
\* generate('words', n, style) is n tokens joined by single spaces and one
\* period after them, and every token is a word of the library of the
\* style, whatever values Math.random gives.
C18_WordsCountAndLibrary ==
  (op = "generate" /\ input.type = "words" /\ input.count >= 1
     /\ input.style \in LibraryNames) =>
    /\ ~result.threw
    /\ LET text == result.text
           body == SubSeq(text, 1, Len(text) - 1)
       IN  /\ Len(text) >= 1
           /\ text[Len(text)] = "."
           /\ Cardinality(Cuts(body, {" "})) = input.count + 1
           /\ TokensOf(body, {" "}) \subseteq LibraryOf(input.style)

\* Two words, the last one of the latin library and another one, were
\* generated.
C18_Witness ==
  /\ op = "generate"
  /\ input.type = "words"
  /\ input.count = 2
  /\ input.style = "latin"
  /\ ~result.threw
  /\ latin[Len(latin)] \in TokensOf(SubSeq(result.text, 1, Len(result.text) - 1), {" "})
  /\ Cardinality(TokensOf(SubSeq(result.text, 1, Len(result.text) - 1), {" "})) = 2

\* C19: for a count of 0 or less generate does not fail, and its result is
\* the empty string for sentences and paragraphs and '.' for words.
C19_NoCountGivesMinimalText ==
  (op = "generate" /\ input.count <= 0) =>
    /\ ~result.threw
    /\ result.text = IF input.type = "words" THEN <<".">> ELSE <<>>

\* Words were asked for with a negative count.
C19_Witness ==
  /\ op = "generate"
  /\ input.type = "words"
  /\ input.count < 0
  /\ result = [threw |-> FALSE, text |-> <<".">>]

\* The words of a generated text: its tokens between spaces and line feeds,
\* without the period that ends a sentence and in small letters; the empty
\* token between the two line feeds that part two paragraphs is none.
GeneratedWords(type, text) ==
  LET strip(t) == IF Len(t) >= 1 /\ t[Len(t)] = "." THEN SubSeq(t, 1, Len(t) - 1) ELSE t
  IN  IF type = "words"
      THEN TokensOf(strip(text), {" "})
      ELSE {toLowerCase(strip(t)) : t \in TokensOf(text, {" ", "\n"}) \ {<<>>}}

\* C20: for a style that is not 'latin', 'english', 'tech' or 'business',
\* generate does not fail and every word of its result is a word of the
\* english library.
C20_UnknownStyleIsEnglish ==
  (op = "generate" /\ input.style \notin LibraryNames /\ input.count >= 1) =>
    /\ ~result.threw
    /\ GeneratedWords(input.type, result.text) \subseteq WordsOf(english)

\* The places of the periods of the part a..b of a text.
PeriodsIn(text, a, b) == {i \in a..b : text[i] = "."}

\* The part a..b of a text is n sentences joined by single spaces: it holds
\* n periods, the last one at b, and what follows a period, or starts the
\* part, is a capital letter, after one space when it follows a period.
IsSentences(text, a, b, n) ==
  /\ Cardinality(PeriodsIn(text, a, b)) = n
  /\ n >= 1 => b \in PeriodsIn(text, a, b)
  /\ \A q \in PeriodsIn(text, a, b) :
       LET before == {r \in PeriodsIn(text, a, b) : r < q}
           last == CHOOSE r \in before : \A m \in before : m <= r
           start == IF before = {} THEN a ELSE last + 2
       IN  /\ start < q
           /\ IsUpper(text[start])
           /\ before # {} => text[last + 1] = " "

\* C21: for a count n >= 1, generate('sentences', n, style) returns n
\* sentences joined by single spaces, each of which starts with a capital
\* letter and ends with one period.
C21_SentencesCountAndShape ==
  (op = "generate" /\ input.type = "sentences" /\ input.count >= 1) =>
    /\ ~result.threw
    /\ IsSentences(result.text, 1, Len(result.text), input.count)

\* The numbers of words of the sentences of a text: of what stands between
\* two periods, when it is not empty.
SentenceLengths(text) ==
  {Len(getWords(t)) : t \in TokensOf(text, {"."}) \ {<<>>}}

\* C22 as stated: every sentence that generateSentences produces holds at
\* least 5 and at most 14 words.
C22_SentenceWordsUpTo14 ==
  (op = "generate" /\ input.type # "words" /\ ~result.threw) =>
    \A n \in SentenceLengths(result.text) : 5 <= n /\ n <= 14

\* C22 amended: every sentence that generateSentences produces holds at
\* least 5 and at most 16 words.
C22_SentenceWordsUpTo16 ==
  (op = "generate" /\ input.type # "words" /\ ~result.threw) =>
    \A n \in SentenceLengths(result.text) : 5 <= n /\ n <= 16

\* Sentences of 5 words and of 16 words were generated in one call.
C22_Witness ==
  /\ op = "generate"
  /\ input.type = "sentences"
  /\ ~result.threw
  /\ {5, 16} \subseteq SentenceLengths(result.text)

\* The places where a paragraph of a text starts.
ParagraphStarts(text) ==
  {a \in 1..Len(text) : text[a] # "\n" /\ (a = 1 \/ text[a - 1] = "\n")}

\* The place where the paragraph that starts at a ends.
ParagraphEnd(text, a) ==
  CHOOSE e \in a..Len(text) :
    /\ \A i \in a..e : text[i] # "\n"
    /\ (e = Len(text) \/ text[e + 1] = "\n")

\* C23: for a count n >= 1, generate('paragraphs', n, style) returns n
\* paragraphs with one blank line between two of them, and every paragraph
\* is at least 3 and at most 7 sentences.
C23_ParagraphsCountAndShape ==
  (op = "generate" /\ input.type = "paragraphs" /\ input.count >= 1) =>
    /\ ~result.threw
    /\ LET text == result.text
       IN  /\ Cardinality(ParagraphStarts(text)) = input.count
           /\ Cardinality({i \in 1..Len(text) : text[i] = "\n"}) = 2 * (input.count - 1)
           /\ text # <<>> /\ text[1] # "\n" /\ text[Len(text)] # "\n"
           /\ \A a \in ParagraphStarts(text) :
                \E n \in 3..7 : IsSentences(text, a, ParagraphEnd(text, a), n)

(***************************************************************************)
(* Claims about TextUtils.debounce                                         *)
(***************************************************************************)
\* Every run of func comes wait or more after the call before it, has the
\* arguments of that call, and no two runs follow the same call.
DebounceRuns ==
  \A i \in 1..Len(ran) :
    /\ ran[i].call \in 1..Len(called)
    /\ ran[i].after >= input.wait
    /\ ran[i].args = called[ran[i].call]
    /\ \A j \in 1..(i - 1) : ran[j].call < ran[i].call

\* The n-th call is followed by another call or by a run of func.
DebounceSettles ==
  \A n \in 1..MaxCalls :
    (Len(called) = n)
      ~> (Len(called) > n \/ (ran # <<>> /\ ran[Len(ran)].call = n))

\* C25: under every interleaving of calls and timer expiries, func runs only
\* when wait has passed since the most recent call, at most once for a burst
\* of calls, with the arguments of the last call of the burst, and after the
\* last call it runs eventually.
C25_DebounceRunsOncePerBurst == []DebounceRuns /\ DebounceSettles

\* Two bursts: two calls with different arguments and one run after the
\* second of them, then a third call and its run.
C25_Witness ==
  /\ Len(called) = 3
  /\ called[1] # called[2]
  /\ Len(ran) = 2
  /\ ran[1].call = 2
  /\ ran[2].call = 3

(***************************************************************************)
(* Claims about TextyApp                                                   *)
(***************************************************************************)
\* C24: when a text is copied and the primary clipboard write fails, the
\* fallback is attempted; when the fallback fails too (the copy command
\* throws or reports failure), copyText shows 'Failed to copy'; and
\* 'Copied to clipboard' is shown only when one of the two mechanisms copied.
\* The state is the one that copyText leaves, result being the attempt.
C24_CopyToastMatchesOutcome ==
  (op = "click copyLoremBtn" /\ result.settled # "none") =>
    /\ (~result.copied => result.fallback)
    /\ (~result.copied => elements.toast = "Failed to copy")
    /\ (elements.toast = "Copied to clipboard" =>
          result.copied /\ clipboard # <<>>)

\* The button of the run that a timer holds.
ButtonOf(name) ==
  IF name = "stripFormatting" THEN "stripFormatBtn"
  ELSE IF name = "autoFormat" THEN "autoFormatBtn"
  ELSE "generateBtn"

\* C26: whenever a strip-formatting, auto-format or lorem-generation run is
\* pending, its timer scheduled and not yet fired, the button of that run is
\* in the loading and disabled state, under every interleaving of clicks,
\* keyboard shortcuts, settings changes and timer expiries.
C26_PendingRunKeepsButtonLoading ==
  \A i \in 1..Len(timers) :
    timers[i].callback.name \in {"stripFormatting", "autoFormat", "generateLorem"}
      => elements[ButtonOf(timers[i].callback.name)]

\* C27: once every pending timer has fired, the statistics and the keywords
\* that are shown are those of TextAnalyzer.analyze of the text that the
\* text input holds, after any typing, paste, strip, auto-format, case
\* conversion and clearing.
C27_DisplayFollowsTextInput ==
  timers = <<>> =>
    LET analysis == analyze(elements.textInput)
    IN  /\ elements.wordCount = formatNumber(analysis.words)
        /\ elements.charCount = formatNumber(analysis.characters)
        /\ elements.sentenceCount = formatNumber(analysis.sentences)
        /\ elements.paragraphCount = formatNumber(analysis.paragraphs)
        /\ elements.readingTime = <<analysis.readingTime, "m">>
        /\ elements.readabilityScore = analysis.fleschScore
        /\ elements.gradeLevel = analysis.gradeLevel
        /\ elements.keywordsList = updateKeywords(analysis.keywords)

\* Three events have changed the text, every timer has fired, and the text
\* that is left has a keyword.
C27_Witness ==
  /\ timers = <<>>
  /\ calls = MaxEvents
  /\ Len(elements.textInput) = MaxTextLen
  /\ elements.keywordsList # NoKeywords
  /\ elements.wordCount = "1"

\* The three places that hold the theme agree on light or on dark.
ThemeLightOrDark ==
  /\ state.theme = dataTheme
  /\ dataTheme = localStorage["texty-theme"]
  /\ state.theme \in {"light", "dark"}

\* C28: after the initialisation and after every toggleTheme the theme in
\* memory, the data-theme attribute and the persisted value are equal and
\* are light or dark, whatever was persisted before start-up; and a
\* toggleTheme, the only step that changes the theme, switches between
\* light and dark.
C28_ThemeLightOrDark ==
  [][/\ ThemeLightOrDark'
     /\ state'.theme # state.theme
          => {state.theme, state'.theme} = {"light", "dark"}]_vars

====
